---- MODULE Spec2Model ----
(***************************************************************************)
(* A model of the openham-modes signal chain: the frame layer              *)
(* (crates/frame), the Huffman text codec (crates/codecs), the BPSK        *)
(* modem (crates/modem), the sync search and the TX/RX coordinators        *)
(* (crates/tools).                                                         *)
(*                                                                         *)
(* Bytes are the integers 0..255, u16 values the integers 0..65535; text   *)
(* is a sequence of Unicode scalar values (code points).                   *)
(***************************************************************************)
EXTENDS Integers, Sequences, FiniteSets, TLC

\* ------------------------------------------------------------------------
\* Bounds of the model
\* ------------------------------------------------------------------------

\* Longest enumerated frame payload, in bytes (a payload of U16 bytes is
\* modelled besides).
MaxPayloadLen == 2

\* The number of passes of a loop evaluated in one run (see while_loop).
LoopChunk == 12

\* The number of iteration orders of the HashMap reverse_token_map that are
\* told apart (see hash_order).
NumHashOrders == 2

\* Longest enumerated text, in characters.
MaxTextLen == 2

\* ------------------------------------------------------------------------
\* Fixed-width integers and bytes
\* ------------------------------------------------------------------------

\* 2^16: the range of u16 (payload.len() as u16 keeps the length modulo it).
U16 == 65536

\* 2^8: the range of u8.
U8 == 256

\* Bit i (0 = least significant) of v: (v >> i) & 1.
Bit(v, i) == (v \div (2 ^ i)) % 2

\* v with bit i inverted: v ^ (1 << i).
FlipBit(v, i) == IF Bit(v, i) = 1 THEN v - 2 ^ i ELSE v + 2 ^ i

\* !b on a u8.
Not8(b) == (U8 - 1) - b

\* u16::wrapping_add.
wrapping_add(a, b) == (a + b) % U16

\* The least significant byte first: what u16::to_le_bytes would give.
to_le_bytes(v) == << v % U8, v \div U8 >>

\* u16::to_be_bytes.
to_be_bytes(v) == << v \div U8, v % U8 >>

\* u16::from_be_bytes.
from_be_bytes(hi, lo) == hi * U8 + lo

\* usize as u16.
as_u16(n) == n % U16

\* Option<T>
Some(v) == [ tag |-> "Some", value |-> v ]
None == [ tag |-> "None" ]

\* The sequences over S of length at most n.
SeqsUpTo(S, n) == UNION { [1..k -> S] : k \in 0..n }

\* `let x = v;`: v is evaluated once and body is applied to its value.
Let(v, body(_)) == body(v)

\* A `while`/`for` loop of the source: `step` is one pass of its body over the
\* loop's variables `s`, `done` its exit condition. The passes are taken in
\* runs of at most LoopChunk so that the evaluation stays shallow.
RECURSIVE loop_run(_, _, _, _)
loop_run(done(_), step(_), s, n) ==
    IF n = 0 \/ done(s) THEN s ELSE loop_run(done, step, step(s), n - 1)

RECURSIVE while_loop(_, _, _)
while_loop(done(_), step(_), s) ==
    IF done(s) THEN s ELSE while_loop(done, step, loop_run(done, step, s, LoopChunk))

\* ------------------------------------------------------------------------
\* crates/frame/src/frame.rs
\* ------------------------------------------------------------------------

\* FrameHeader::SIZE
SIZE == 8

\* A checksum that leaves the flags out of the sum.
checksum_without_flags(h) ==
    LET s1 == wrapping_add(0, h.frame_type)
        s2 == wrapping_add(s1, h.sequence)
        s3 == wrapping_add(s2, h.payload_length)
    IN  (U16 - 1) - s3

\* FrameHeader::calculate_checksum: the ones-complement of the wrapping u16
\* sum of frame_type, sequence, payload_length and flags.
calculate_checksum(h) ==
    LET s1 == wrapping_add(0, h.frame_type)
        s2 == wrapping_add(s1, h.sequence)
        s3 == wrapping_add(s2, h.payload_length)
        s4 == wrapping_add(s3, h.flags)
    IN  (U16 - 1) - s4

\* FrameHeader::validate_checksum
validate_checksum(h) == h.checksum = calculate_checksum(h)

\* FrameHeader::new
FrameHeader_new(frame_type, sequence, payload_length, flags) ==
    LET header == [ frame_type |-> frame_type, sequence |-> sequence,
                    payload_length |-> payload_length, flags |-> flags,
                    checksum |-> 0 ]
    IN  [ header EXCEPT !.checksum = calculate_checksum(header) ]

\* FrameHeader::to_bytes
FrameHeader_to_bytes(h) ==
    << h.frame_type >> \o to_be_bytes(h.sequence) \o
    to_be_bytes(h.payload_length) \o << h.flags >> \o to_be_bytes(h.checksum)

\* Results of the fallible frame operations.
Ok(v) == [ tag |-> "Ok", value |-> v ]
InvalidFormat == [ tag |-> "InvalidFormat" ]
SizeMismatch(expected, actual) ==
    [ tag |-> "SizeMismatch", expected |-> expected, actual |-> actual ]

\* FrameHeader::from_bytes
FrameHeader_from_bytes(bytes) ==
    IF Len(bytes) < SIZE THEN InvalidFormat
    ELSE LET header == [ frame_type |-> bytes[1],
                         sequence |-> from_be_bytes(bytes[2], bytes[3]),
                         payload_length |-> from_be_bytes(bytes[4], bytes[5]),
                         flags |-> bytes[6],
                         checksum |-> from_be_bytes(bytes[7], bytes[8]) ]
         IN  IF ~validate_checksum(header) THEN InvalidFormat ELSE Ok(header)

\* Frame::new
Frame_new(frame_type, sequence, payload, flags) ==
    [ header |-> FrameHeader_new(frame_type, sequence, as_u16(Len(payload)), flags),
      payload |-> payload ]

\* Frame::to_bytes
Frame_to_bytes(f) == FrameHeader_to_bytes(f.header) \o f.payload

\* A parser that takes every byte after the header for the payload.
Frame_from_bytes_whole(bytes) ==
    IF Len(bytes) < SIZE THEN InvalidFormat
    ELSE LET hr == FrameHeader_from_bytes(SubSeq(bytes, 1, SIZE))
         IN  IF hr.tag # "Ok" THEN hr
             ELSE IF Len(bytes) < SIZE + hr.value.payload_length
                  THEN SizeMismatch(SIZE + hr.value.payload_length, Len(bytes))
                  ELSE Ok([ header |-> hr.value,
                            payload |-> SubSeq(bytes, SIZE + 1, Len(bytes)) ])

\* Frame::from_bytes
Frame_from_bytes(bytes) ==
    IF Len(bytes) < SIZE THEN InvalidFormat
    ELSE LET hr == FrameHeader_from_bytes(SubSeq(bytes, 1, SIZE))
         IN  IF hr.tag # "Ok" THEN hr
             ELSE LET header == hr.value
                      expected_total_size == SIZE + header.payload_length
                  IN  IF Len(bytes) < expected_total_size
                      THEN SizeMismatch(expected_total_size, Len(bytes))
                      ELSE Ok([ header |-> header,
                                payload |-> SubSeq(bytes, SIZE + 1, expected_total_size) ])

\* FrameBuilder::new
FrameBuilder_new(frame_type) ==
    [ frame_type |-> frame_type, sequence |-> 0, flags |-> 0 ]

\* FrameBuilder::sequence
FrameBuilder_sequence(b, sequence) == [ b EXCEPT !.sequence = sequence ]

\* FrameBuilder::flags
FrameBuilder_flags(b, flags) == [ b EXCEPT !.flags = flags ]

\* FrameBuilder::build
FrameBuilder_build(b, payload) ==
    Frame_new(b.frame_type, b.sequence, payload, b.flags)

\* ------------------------------------------------------------------------
\* UTF-8 (char::encode_utf8, char::len_utf8, std::str::from_utf8)
\* ------------------------------------------------------------------------


\* char::len_utf8
len_utf8(ch) ==
    IF ch < 128 THEN 1 ELSE IF ch < 2048 THEN 2 ELSE IF ch < 65536 THEN 3 ELSE 4

\* char::encode_utf8: the UTF-8 bytes of one scalar value.
encode_utf8(ch) ==
    CASE len_utf8(ch) = 1 -> << ch >>
      [] len_utf8(ch) = 2 -> << 192 + (ch \div 64), 128 + (ch % 64) >>
      [] len_utf8(ch) = 3 ->
            << 224 + (ch \div 4096), 128 + ((ch \div 64) % 64), 128 + (ch % 64) >>
      [] OTHER ->
            << 240 + (ch \div 262144), 128 + ((ch \div 4096) % 64),
               128 + ((ch \div 64) % 64), 128 + (ch % 64) >>

\* str::as_bytes of the string holding the scalars of `text`.
RECURSIVE as_bytes(_)
as_bytes(text) ==
    IF text = << >> THEN << >>
    ELSE IF Len(text) = 1 THEN encode_utf8(text[1])
    ELSE LET half == Len(text) \div 2
         IN  as_bytes(SubSeq(text, 1, half))
               \o as_bytes(SubSeq(text, half + 1, Len(text)))

IsCont(b) == b \in 128..191

\* The length of the well-formed UTF-8 sequence that starts at bytes[i], or 0
\* when none does (the validation of std::str::from_utf8).
Utf8SeqLen(bytes, i) ==
    LET n == Len(bytes)
        b0 == bytes[i]
        b1 == IF i + 1 <= n THEN bytes[i + 1] ELSE 0
        b2 == IF i + 2 <= n THEN bytes[i + 2] ELSE 0
        b3 == IF i + 3 <= n THEN bytes[i + 3] ELSE 0
    IN  CASE b0 < 128 -> 1
          [] b0 \in 194..223 -> IF IsCont(b1) THEN 2 ELSE 0
          [] b0 = 224 -> IF b1 \in 160..191 /\ IsCont(b2) THEN 3 ELSE 0
          [] b0 \in 225..236 \cup 238..239 ->
                IF IsCont(b1) /\ IsCont(b2) THEN 3 ELSE 0
          [] b0 = 237 -> IF b1 \in 128..159 /\ IsCont(b2) THEN 3 ELSE 0
          [] b0 = 240 ->
                IF b1 \in 144..191 /\ IsCont(b2) /\ IsCont(b3) THEN 4 ELSE 0
          [] b0 \in 241..243 ->
                IF IsCont(b1) /\ IsCont(b2) /\ IsCont(b3) THEN 4 ELSE 0
          [] b0 = 244 ->
                IF b1 \in 128..143 /\ IsCont(b2) /\ IsCont(b3) THEN 4 ELSE 0
          [] OTHER -> 0

\* The scalar value encoded by the well-formed sequence of length k at bytes[i].
Utf8Scalar(bytes, i, k) ==
    CASE k = 1 -> bytes[i]
      [] k = 2 -> (bytes[i] - 192) * 64 + (bytes[i + 1] - 128)
      [] k = 3 -> (bytes[i] - 224) * 4096 + (bytes[i + 1] - 128) * 64
                  + (bytes[i + 2] - 128)
      [] OTHER -> (bytes[i] - 240) * 262144 + (bytes[i + 1] - 128) * 4096
                  + (bytes[i + 2] - 128) * 64 + (bytes[i + 3] - 128)

\* A conversion that accepts every byte sequence, one scalar per byte.
from_utf8_unchecked(bytes) == [ tag |-> "Some", value |-> bytes ]

\* std::str::from_utf8 / String::from_utf8: Some(the scalars) or None.
RECURSIVE from_utf8_at(_, _, _)
from_utf8_at(bytes, i, acc) ==
    IF i > Len(bytes) THEN Some(acc)
    ELSE LET k == Utf8SeqLen(bytes, i)
         IN  IF k = 0 THEN [ tag |-> "None" ]
             ELSE from_utf8_at(bytes, i + k, Append(acc, Utf8Scalar(bytes, i, k)))

from_utf8(bytes) == from_utf8_at(bytes, 1, << >>)

\* ------------------------------------------------------------------------
\* crates/codecs/src/text.rs: HuffmanCodec
\* ------------------------------------------------------------------------

\* u8::to_ascii_lowercase / char::to_ascii_lowercase
to_ascii_lowercase(ch) == IF ch \in 65..90 THEN ch + 32 ELSE ch

\* A classification under which no byte delimits a word.
never_alphanumeric(b) == FALSE

\* u8::is_ascii_alphanumeric
is_ascii_alphanumeric(b) == b \in (48..57) \cup (65..90) \cup (97..122)

\* <[u8]>::eq_ignore_ascii_case
eq_ignore_ascii_case(a, b) ==
    /\ Len(a) = Len(b)
    /\ \A k \in 1..Len(a) : to_ascii_lowercase(a[k]) = to_ascii_lowercase(b[k])

\* init_tokens: the 22 ham tokens, in declaration order:
\* QRZ QRM QRO QRP QRS QRT QRB QSB QSL QSO QSY QTH CQ DE BK KN K AR SK YL OM 73
tokens ==
    <<
       <<81, 82, 90>>, <<81, 82, 77>>, <<81, 82, 79>>, <<81, 82, 80>>,
       <<81, 82, 83>>, <<81, 82, 84>>, <<81, 82, 66>>, <<81, 83, 66>>,
       <<81, 83, 76>>, <<81, 83, 79>>, <<81, 83, 89>>, <<81, 84, 72>>,
       <<67, 81>>, <<68, 69>>, <<66, 75>>, <<75, 78>>, <<75>>, <<65, 82>>,
       <<83, 75>>, <<89, 76>>, <<79, 77>>, <<55, 51>>
    >>

\* init_tokens: the first sentinel, U+E000 (`next = 0xE000`).
PrivateUseStart == 57344

\* init_tokens: token k is mapped to the sentinel U+E000 + (k - 1).
sentinel_of(k) == PrivateUseStart + (k - 1)

Sentinels == { sentinel_of(k) : k \in 1..Len(tokens) }

\* reverse_token_map.get(&ch)
reverse_token_map_get(ch) ==
    IF ch \in Sentinels THEN Some(tokens[ch - PrivateUseStart + 1])
    ELSE [ tag |-> "None" ]

\* build_english_table: the weights of the upper-case letters.
letter_freqs ==
    <<
       <<69, 120>>, <<84, 90>>, <<65, 81>>, <<79, 75>>, <<73, 70>>, <<78, 67>>,
       <<83, 63>>, <<72, 61>>, <<82, 60>>, <<68, 43>>, <<76, 40>>, <<67, 28>>,
       <<85, 28>>, <<77, 24>>, <<87, 24>>, <<70, 22>>, <<71, 20>>, <<89, 20>>,
       <<80, 19>>, <<66, 15>>, <<86, 10>>, <<75, 8>>, <<74, 2>>, <<88, 2>>,
       <<81, 1>>, <<90, 1>>
    >>

\* build_english_table: . , ! ? : ; - ' " ( ) /
punctuation_freqs ==
    <<
       <<46, 12>>, <<44, 12>>, <<33, 6>>, <<63, 6>>, <<58, 4>>, <<59, 4>>,
       <<45, 7>>, <<39, 5>>, <<34, 3>>, <<40, 2>>, <<41, 2>>, <<47, 2>>
    >>

\* build_english_table: the weight of every token sentinel.
SentinelWeight == 180

\* build_english_table: the weight of every digit.
DigitWeight == 8

\* build_english_table: the weight of the space.
SpaceWeight == 700

\* build_english_table: the (char, weight) list handed to
\* build_codes_from_frequencies. `order` is the order in which the iteration
\* over the HashMap reverse_token_map yields the sentinels.
english_freqs(order) ==
    << << 32, SpaceWeight >> >>
    \o [ k \in 1..(2 * Len(letter_freqs)) |->
           IF k % 2 = 1 THEN letter_freqs[(k + 1) \div 2]
           ELSE << to_ascii_lowercase(letter_freqs[k \div 2][1]),
                   letter_freqs[k \div 2][2] >> ]
    \o [ d \in 1..10 |-> << 48 + (d - 1), DigitWeight >> ]
    \o punctuation_freqs
    \o [ k \in 1..Len(order) |-> << order[k], SentinelWeight >> ]

\* build_codes_from_frequencies: struct Node.
Leaf(ch, w) ==
    [ weight |-> w, symbol |-> Some(ch),
      left |-> [ tag |-> "None" ], right |-> [ tag |-> "None" ] ]

Merged(n1, n2) ==
    [ weight |-> n1.weight + n2.weight, symbol |-> [ tag |-> "None" ],
      left |-> Some(n1), right |-> Some(n2) ]

\* struct HeapItem(weight, tie-breaker, node)
HeapItem(w, c, node) == [ w |-> w, c |-> c, node |-> node ]

\* BinaryHeap::pop under HeapItem's reversed Ord: the least (weight, counter).
heap_pop(heap) ==
    CHOOSE x \in heap :
        \A y \in heap : x.w < y.w \/ (x.w = y.w /\ x.c <= y.c)

\* One pass of the body of `while heap.len() > 1`: pop the two least items
\* and push their parent under the next tie-breaker.
build_tree_step(s) ==
    LET i1 == heap_pop(s.heap)
        h1 == s.heap \ { i1 }
        i2 == heap_pop(h1)
        h2 == h1 \ { i2 }
        merged == Merged(i1.node, i2.node)
    IN  [ heap |-> h2 \cup { HeapItem(i1.w + i2.w, s.counter + 1, merged) },
          counter |-> s.counter + 1 ]

build_tree_done(s) == Cardinality(s.heap) <= 1

\* The loop `while heap.len() > 1`, then `heap.pop().unwrap().2`: the root.
build_tree(heap, counter) ==
    heap_pop(while_loop(build_tree_done, build_tree_step,
                        [ heap |-> heap, counter |-> counter ]).heap).node

\* fn dfs: the (symbol, depth) of every leaf, left to right.
RECURSIVE dfs(_, _)
dfs(node, depth) ==
    IF node.symbol.tag = "Some"
    THEN << << node.symbol.value, IF depth = 0 THEN 1 ELSE depth >> >>
    ELSE (IF node.left.tag = "Some" THEN dfs(node.left.value, depth + 1) ELSE << >>)
         \o
         (IF node.right.tag = "Some" THEN dfs(node.right.value, depth + 1) ELSE << >>)

\* The order of lengths.sort_by(|a, b| a.1.cmp(&b.1).then_with(|| a.0.cmp(&b.0))).
length_less(a, b) == a[2] < b[2] \/ (a[2] = b[2] /\ a[1] < b[1])

\* Move the least remaining (symbol, length) to the end of the output.
sort_step(s) ==
    LET m == CHOOSE x \in s.rest : \A y \in s.rest : ~length_less(y, x)
    IN  [ rest |-> s.rest \ { m }, out |-> Append(s.out, m) ]

sort_done(s) == s.rest = {}

\* lengths.sort_by(...): every symbol occurs once, so the order is total and
\* the sorted list is the ascending enumeration of the pairs.
sort_lengths(lengths) ==
    while_loop(sort_done, sort_step,
               [ rest |-> { lengths[i] : i \in 1..Len(lengths) }, out |-> << >> ]).out

\* code_val with `len` bits as an MSB-first bit vector: bits len-1 down to i.
RECURSIVE code_bits_from(_, _)
code_bits_from(code_val, i) ==
    IF i < 0 THEN << >>
    ELSE << Bit(code_val, i) >> \o code_bits_from(code_val, i - 1)

code_bits(code_val, len) == code_bits_from(code_val, len - 1)

\* One pass of the body of `for (ch, len) in lengths`. code_val is a u32; the
\* codes of the English table have at most 13 bits, so
\* `code_val <<= len - prev_len` never reaches its width.
assign_codes_step(s) ==
    LET ch == s.lengths[s.k][1]
        len == s.lengths[s.k][2]
        cv == IF len > s.prev_len
              THEN s.code_val * 2 ^ (len - s.prev_len)
              ELSE s.code_val
    IN  [ s EXCEPT !.k = s.k + 1, !.code_val = cv + 1, !.prev_len = len,
                   !.codes = Append(s.codes, << ch, code_bits(cv, len) >>) ]

assign_codes_done(s) == s.k > Len(s.lengths)

\* The loop `for (ch, len) in lengths`: the canonical (symbol, bits) list.
assign_codes(lengths) ==
    while_loop(assign_codes_done, assign_codes_step,
               [ lengths |-> lengths, k |-> 1, code_val |-> 0,
                 prev_len |-> lengths[1][2], codes |-> << >> ]).codes

\* struct DecodeNode
EmptyDecodeNode ==
    [ character |-> [ tag |-> "None" ],
      left |-> [ tag |-> "None" ], right |-> [ tag |-> "None" ] ]

\* build_decode_tree, inner loop: walk `bits` from bits[k] creating the
\* missing children, and set the character of the node reached.
RECURSIVE decode_tree_insert(_, _, _, _)
decode_tree_insert(node, bits, k, ch) ==
    IF k > Len(bits) THEN [ node EXCEPT !.character = Some(ch) ]
    ELSE LET next_node == IF bits[k] = 0 THEN node.left ELSE node.right
             child == IF next_node.tag = "None" THEN EmptyDecodeNode
                      ELSE next_node.value
             grown == Some(decode_tree_insert(child, bits, k + 1, ch))
         IN  IF bits[k] = 0 THEN [ node EXCEPT !.left = grown ]
             ELSE [ node EXCEPT !.right = grown ]

\* build_decode_tree, one pass of `for (ch, bits) in &self.encode_table`.
build_decode_tree_step(s) ==
    [ s EXCEPT !.k = s.k + 1,
               !.tree = decode_tree_insert(s.tree, s.codes[s.k][2], 1, s.codes[s.k][1]) ]

build_decode_tree_done(s) == s.k > Len(s.codes)

\* build_decode_tree: insert every (ch, bits) of the encode table. The codes
\* are prefix-free, so the tree does not depend on the order of insertion.
build_decode_tree(codes) ==
    while_loop(build_decode_tree_done, build_decode_tree_step,
               [ codes |-> codes, k |-> 1, tree |-> EmptyDecodeNode ]).tree

\* `self.encode_table.insert(ch, bits)` for the (ch, bits) of codes[lo..hi].
RECURSIVE encode_table_of(_, _, _)
encode_table_of(codes, lo, hi) ==
    IF lo > hi THEN << >>
    ELSE IF lo = hi THEN codes[lo][1] :> codes[lo][2]
    ELSE LET mid == (lo + hi) \div 2
         IN  encode_table_of(codes, lo, mid) @@ encode_table_of(codes, mid + 1, hi)

\* build_codes_from_frequencies: the encode table and the decode tree.
build_codes_from_frequencies(freqs) ==
    LET kept == SelectSeq(freqs, LAMBDA f : f[2] > 0)
        heap == { HeapItem(kept[k][2], k, Leaf(kept[k][1], kept[k][2])) :
                    k \in 1..Len(kept) }
    IN  IF heap = {} THEN [ encode_table |-> << >>, decode_tree |-> EmptyDecodeNode ]
        ELSE LET root == build_tree(heap, Len(kept))
                 lengths == sort_lengths(dfs(root, 0))
                 codes == assign_codes(lengths)
             IN  [ encode_table |-> encode_table_of(codes, 1, Len(codes)),
                   decode_tree |-> build_decode_tree(codes) ]

\* HuffmanCodec::new_english. The maps of init_tokens are the same in every
\* instance; the tables depend on `order`, the iteration order of
\* reverse_token_map in build_english_table.
new_english(order) == build_codes_from_frequencies(english_freqs(order))

\* token_map.get(tok)
token_map_get(tok) == sentinel_of(CHOOSE k \in 1..Len(tokens) : tokens[k] = tok)

\* encode: token_list, the tokens by descending length. Tokens of one length
\* differ in some letter, so at most one of them matches at a position and
\* their relative order (that of the HashMap) has no effect.
token_list ==
    LET of_len(n) == SelectSeq(tokens, LAMBDA t : Len(t) = n)
    IN  of_len(3) \o of_len(2) \o of_len(1)

\* `for k in (0..8).rev() { bits.push((b >> k) & 1) }`
byte_bits(b) == << Bit(b, 7), Bit(b, 6), Bit(b, 5), Bit(b, 4),
                   Bit(b, 3), Bit(b, 2), Bit(b, 1), Bit(b, 0) >>

\* The bits of the bytes[k..], MSB first.
RECURSIVE bytes_bits(_, _)
bytes_bits(bytes, k) ==
    IF k > Len(bytes) THEN << >>
    ELSE byte_bits(bytes[k]) \o bytes_bits(bytes, k + 1)

\* `if bit == 1 { byte_val |= 1 << (7 - i) }` over a chunk of up to 8 bits.
RECURSIVE chunk_byte(_, _)
chunk_byte(chunk, i) ==
    IF i >= Len(chunk) THEN 0
    ELSE (IF chunk[i + 1] = 1 THEN 2 ^ (7 - i) ELSE 0) + chunk_byte(chunk, i + 1)

\* encode: the escape of a character outside the encode table.
escape_bits(ch) ==
    LET utf8 == encode_utf8(ch)
        len_field == Len(utf8) - 1
    IN  [ j \in 1..20 |-> 1 ] \o << Bit(len_field, 1), Bit(len_field, 0) >>
        \o bytes_bits(utf8, 1)

\* encode: one pass of `while i < bytes.len()` (i counts from 0).
encode_step(s) ==
    LET bytes == s.bytes
        i == s.i
        matches(tok) ==
            /\ i + Len(tok) <= Len(bytes)
            /\ eq_ignore_ascii_case(SubSeq(bytes, i + 1, i + Len(tok)), tok)
            /\ ~(i # 0 /\ is_ascii_alphanumeric(bytes[i]))
            /\ ~(i + Len(tok) < Len(bytes)
                 /\ is_ascii_alphanumeric(bytes[i + Len(tok) + 1]))
            /\ token_map_get(tok) \in DOMAIN s.encode_table
        hits == { k \in 1..Len(token_list) : matches(token_list[k]) }
    IN  IF hits # {}
        THEN LET tok == token_list[CHOOSE k \in hits : \A m \in hits : k <= m]
             IN  [ s EXCEPT !.bits = @ \o s.encode_table[token_map_get(tok)],
                            !.i = i + Len(tok) ]
        ELSE LET ch == Utf8Scalar(bytes, i + 1, Utf8SeqLen(bytes, i + 1))
             IN  [ s EXCEPT !.bits = @ \o (IF ch \in DOMAIN s.encode_table
                                           THEN s.encode_table[ch]
                                           ELSE escape_bits(ch)),
                            !.i = i + len_utf8(ch) ]

encode_done(s) == s.i >= Len(s.bytes)

\* `for chunk in full_bits.chunks(8)`: one byte per chunk.
pack_step(s) ==
    [ s EXCEPT !.i = s.i + 8,
               !.out = Append(s.out, chunk_byte(SubSeq(s.bits, s.i + 1,
                                        IF s.i + 8 < Len(s.bits) THEN s.i + 8
                                        ELSE Len(s.bits)), 0)) ]

pack_done(s) == s.i >= Len(s.bits)

pack_bits(bits) ==
    while_loop(pack_done, pack_step, [ bits |-> bits, i |-> 0, out |-> << >> ]).out

\* HuffmanCodec::encode (it has no error path: the bytes of Ok(bytes)).
encode(codec, text) ==
    Let(while_loop(encode_done, encode_step,
                   [ encode_table |-> codec.encode_table,
                     bytes |-> as_bytes(text), i |-> 0, bits |-> << >> ]).bits,
        LAMBDA bits :
            Let([ k \in 1..16 |-> Bit(as_u16(Len(bits)), 16 - k) ] \o bits,
                LAMBDA full_bits :
                    pack_bits(full_bits
                              \o [ k \in 1..((8 - (Len(full_bits) % 8)) % 8) |-> 0 ])))

\* CodecError::DecodingFailed { msg }
DecodingFailed(msg) == [ tag |-> "DecodingFailed", msg |-> msg ]

\* decode: one pass of `while i < bits.len()` (i counts from 0). `status` is
\* "run", "break" after a `break`, or the message of the error returned.
decode_step(s) ==
    LET bits == s.bits
        i == s.i
        is_escape == i + 20 < Len(bits) /\ \A j \in 0..19 : bits[i + j + 1] = 1
    IN  IF is_escape
        THEN IF i + 22 > Len(bits) THEN [ s EXCEPT !.status = "break" ]
             ELSE LET n == (bits[i + 21] * 2 + bits[i + 22]) + 1
                      needed == 22 + 8 * n
                  IN  IF i + needed > Len(bits) THEN [ s EXCEPT !.status = "break" ]
                      ELSE LET bytes == [ b \in 1..n |->
                                   chunk_byte(SubSeq(bits, i + 22 + 8 * (b - 1) + 1,
                                                     i + 22 + 8 * b), 0) ]
                               str == from_utf8(bytes)
                           IN  IF str.tag = "None"
                               THEN [ s EXCEPT !.status = "Invalid UTF-8 in escape" ]
                               ELSE [ s EXCEPT !.result = @ \o str.value,
                                               !.i = i + needed,
                                               !.current = s.decode_tree ]
        ELSE LET next_node == IF bits[i + 1] = 0 THEN s.current.left
                              ELSE s.current.right
             IN  IF next_node.tag = "None"
                 THEN [ s EXCEPT !.status =
                            IF bits[i + 1] = 0
                            THEN "Invalid bit sequence - no left branch"
                            ELSE "Invalid bit sequence - no right branch" ]
                 ELSE IF next_node.value.character.tag = "Some"
                 THEN LET ch == next_node.value.character.value
                          tok == reverse_token_map_get(ch)
                      IN  [ s EXCEPT !.result = @ \o (IF tok.tag = "Some"
                                                      THEN tok.value ELSE << ch >>),
                                     !.current = s.decode_tree,
                                     !.i = i + 1 ]
                 ELSE [ s EXCEPT !.current = next_node.value, !.i = i + 1 ]

decode_done(s) == s.i >= Len(s.bits) \/ s.status # "run"

\* A decoder that takes every bit after the header, whatever the header says.
decode_all_bits(codec, data) ==
    IF Len(data) < 2 THEN DecodingFailed("Data too short")
    ELSE Let(bytes_bits(data, 1), LAMBDA all_bits :
             Let(while_loop(decode_done, decode_step,
                            [ decode_tree |-> codec.decode_tree,
                              bits |-> SubSeq(all_bits, 17, Len(all_bits)),
                              i |-> 0, current |-> codec.decode_tree,
                              result |-> << >>, status |-> "run" ]),
                 LAMBDA end :
                     IF end.status \in { "run", "break" } THEN Ok(end.result)
                     ELSE DecodingFailed(end.status)))

\* HuffmanCodec::decode
decode(codec, data) ==
    IF Len(data) < 2 THEN DecodingFailed("Data too short")
    ELSE Let(bytes_bits(data, 1), LAMBDA all_bits :
             LET bit_len == chunk_byte(SubSeq(all_bits, 1, 8), 0) * U8
                            + chunk_byte(SubSeq(all_bits, 9, 16), 0)
                 available == Len(all_bits) - 16
                 take == IF bit_len < available THEN bit_len ELSE available
             IN  Let(while_loop(decode_done, decode_step,
                                [ decode_tree |-> codec.decode_tree,
                                  bits |-> SubSeq(all_bits, 17, 16 + take),
                                  i |-> 0, current |-> codec.decode_tree,
                                  result |-> << >>, status |-> "run" ]),
                     LAMBDA end :
                         IF end.status \in { "run", "break" } THEN Ok(end.result)
                         ELSE DecodingFailed(end.status)))

\* build_english_table: the built-in alphabet (space, letters of both cases,
\* digits, punctuation), that is every symbol given a weight but the sentinels.
Alphabet ==
    LET freqs == english_freqs(<< >>)
    IN  { freqs[k][1] : k \in 1..Len(freqs) }

\* The iteration order of a HashMap is that of its RandomState, which differs
\* between instances: order n yields the sentinels rotated by n - 1 places.
hash_order(n) ==
    [ k \in 1..Len(tokens) |-> sentinel_of(((k - 1 + (n - 1)) % Len(tokens)) + 1) ]

RECURSIVE codecs_upto(_)
codecs_upto(n) ==
    IF n = 0 THEN << >>
    ELSE Append(codecs_upto(n - 1), new_english(hash_order(n)))

\* The codec HuffmanCodec::new_english() returns under each iteration order.
EnglishCodecs == codecs_upto(NumHashOrders)

\* AsciiCodec::encode
ascii_encode(text) == as_bytes(text)

\* ------------------------------------------------------------------------
\* crates/tools/src/bin/openham-main.rs: extract_frame_data_any_alignment
\* ------------------------------------------------------------------------

SYNC == << 85, 85, 85, 85, 170, 170, 126, 126 >>
SYNC_INV == << 170, 170, 170, 170, 85, 85, 129, 129 >>

\* try_search: the bits of `data` in the chosen bit order.
to_bits(data, msb_first) ==
    [ k \in 1..(8 * Len(data)) |->
        LET b == data[((k - 1) \div 8) + 1]
            i == (k - 1) % 8
        IN  IF msb_first THEN Bit(b, 7 - i) ELSE Bit(b, i) ]

\* try_search: a chunk of 8 bits repacked in the chosen bit order.
RECURSIVE repack(_, _, _)
repack(chunk, msb_first, i) ==
    IF i >= Len(chunk) THEN 0
    ELSE (IF chunk[i + 1] # 0 THEN (IF msb_first THEN 2 ^ (7 - i) ELSE 2 ^ i) ELSE 0)
         + repack(chunk, msb_first, i + 1)

\* The closure `search`: the first index (from 0) of needle in hay.
search(hay, needle) ==
    IF Len(hay) < Len(needle) THEN None
    ELSE LET hits == { i \in 0..(Len(hay) - Len(needle)) :
                         SubSeq(hay, i + 1, i + Len(needle)) = needle }
         IN  IF hits = {} THEN None
             ELSE Some(CHOOSE i \in hits : \A j \in hits : i <= j)

\* try_search, the loop `for shift in 0..8` from `shift` on.
RECURSIVE try_search_from(_, _, _)
try_search_from(bits, msb_first, shift) ==
    IF shift >= 8 \/ Len(bits) <= shift THEN None
    ELSE LET aligned_len_bytes == (Len(bits) - shift) \div 8
         IN  IF aligned_len_bytes < Len(SYNC)
             THEN try_search_from(bits, msb_first, shift + 1)
             ELSE Let(SubSeq([ k \in 1..aligned_len_bytes |->
                                 repack(SubSeq(bits, shift + 8 * (k - 1) + 1,
                                               shift + 8 * k), msb_first, 0) ],
                             1, aligned_len_bytes),
                      LAMBDA aligned_bytes :
                  LET after(pos, n) ==
                          Some(SubSeq(aligned_bytes, pos + n + 1, Len(aligned_bytes)))
                      p1 == search(aligned_bytes, SYNC)
                      p2 == search(aligned_bytes, SYNC_INV)
                      p3 == search(aligned_bytes, << 126, 126 >>)
                      p4 == search(aligned_bytes, << 129, 129 >>)
                  IN  IF p1.tag = "Some" THEN after(p1.value, Len(SYNC))
                      ELSE IF p2.tag = "Some" THEN after(p2.value, Len(SYNC_INV))
                      ELSE IF p3.tag = "Some" THEN after(p3.value, 2)
                      ELSE IF p4.tag = "Some" THEN after(p4.value, 2)
                      ELSE try_search_from(bits, msb_first, shift + 1))

\* The closure `try_search`.
try_search(data, msb_first) ==
    try_search_from(SubSeq(to_bits(data, msb_first), 1, 8 * Len(data)), msb_first, 0)

\* extract_frame_data_any_alignment: MSB-first, then LSB-first.
extract_frame_data_any_alignment(data) ==
    Let(try_search(data, TRUE),
        LAMBDA m : IF m.tag = "Some" THEN m ELSE try_search(data, FALSE))

\* The channel delays the stream by k bits: k zero bits precede it, and the
\* receiver packs the bits into bytes, a last partial byte filled with zeros.
shift_stream(data, k) ==
    Let([ j \in 1..k |-> 0 ] \o to_bits(data, TRUE),
        LAMBDA bits :
            pack_bits(bits \o [ j \in 1..((8 - (Len(bits) % 8)) % 8) |-> 0 ]))

\* u8::reverse_bits
reverse_bits(b) == repack(byte_bits(b), FALSE, 0)

\* The channel delivers every byte of the stream in the opposite bit order.
reverse_stream(data) == [ k \in 1..Len(data) |-> reverse_bits(data[k]) ]

\* ------------------------------------------------------------------------
\* crates/modem/src/common.rs, crates/modem/src/bpsk.rs
\* ------------------------------------------------------------------------

\* ModemError::InvalidParameters
InvalidParameters == [ tag |-> "InvalidParameters" ]

\* ModulationConfig::new. The rates are whole numbers of Hz, and the carrier
\* is one that makes the oscillator exact: 0 or a quarter of the sample rate.
ModulationConfig_new(sample_rate, symbol_rate, carrier_frequency) ==
    IF sample_rate <= 0 THEN InvalidParameters
    ELSE IF symbol_rate <= 0 \/ 2 * symbol_rate > sample_rate THEN InvalidParameters
    ELSE Ok([ sample_rate |-> sample_rate, symbol_rate |-> symbol_rate,
              carrier_frequency |-> carrier_frequency ])

\* The ratio rounded to the nearest integer, halves away from zero.
samples_per_symbol_nearest(config) ==
    (2 * config.sample_rate + config.symbol_rate) \div (2 * config.symbol_rate)

\* `self.config.samples_per_symbol() as usize`
samples_per_symbol(config) == config.sample_rate \div config.symbol_rate

\* cos and sin of omega * n, omega = 2 PI carrier_frequency / sample_rate:
\* whole quarter turns for the carriers of the model.
quarter_turns(config, n) ==
    (((4 * config.carrier_frequency) \div config.sample_rate) * n) % 4

cos_phase(config, n) == << 1, 0, -1, 0 >>[quarter_turns(config, n) + 1]
sin_phase(config, n) == << 0, 1, 0, -1 >>[quarter_turns(config, n) + 1]

\* Complex::new(real, imag)
Complex(re, im) == [ real |-> re, imag |-> im ]

\* BpskModulator::generate_carrier, for the sample numbered sample_counter.
generate_carrier(config, sample_counter, symbol) ==
    Complex(symbol * cos_phase(config, sample_counter),
            symbol * sin_phase(config, sample_counter))

\* BpskModulator::modulate on a modulator whose sample_counter is `counter`:
\* bit 0 is the symbol -1, bit 1 the symbol +1, MSB first.
modulate(config, counter, bytes) ==
    LET sps == samples_per_symbol(config)
    IN  [ n \in 1..(8 * Len(bytes) * sps) |->
            LET sym == (n - 1) \div sps
                byte == bytes[(sym \div 8) + 1]
                bit == Bit(byte, 7 - (sym % 8))
            IN  generate_carrier(config, counter + (n - 1),
                                 IF bit = 0 THEN -1 ELSE 1) ]

\* The sum of f over lo..hi.
RECURSIVE sum_range(_, _, _)
sum_range(f(_), lo, hi) ==
    IF lo > hi THEN 0
    ELSE IF lo = hi THEN f(lo)
    ELSE LET mid == (lo + hi) \div 2
         IN  sum_range(f, lo, mid) + sum_range(f, mid + 1, hi)

abs(x) == IF x < 0 THEN -x ELSE x

\* The opposite decision: 1 for a negative sum.
decide_bit_inverted(acc) == IF acc < 0 THEN 1 ELSE 0

\* demodulate: the decision `if acc > 0.0 { 1 } else { 0 }`.
decide_bit(acc) == IF acc > 0 THEN 1 ELSE 0

\* demodulate, the body of `for offset in 0..samples_per_symbol`: the byte
\* stream, the strength and the position of the sync at this symbol phase.
demod_candidate(bb_real, sps, offset) ==
    LET nsym == IF Len(bb_real) < offset THEN 0 ELSE (Len(bb_real) - offset) \div sps
        acc(k) == sum_range(LAMBDA j : bb_real[j + 1],
                            offset + (k - 1) * sps, offset + k * sps - 1)
    IN  Let(SubSeq([ k \in 1..nsym |-> acc(k) ], 1, nsym), LAMBDA accs :
        Let(pack_bits(SubSeq([ k \in 1..nsym |-> decide_bit(accs[k]) ], 1, nsym)),
            LAMBDA tmp_bytes :
        Let({ k \in 0..Len(tmp_bytes) : \A m \in 1..k : tmp_bytes[m] \in { 0, 255 } },
            LAMBDA leading :
        Let({ pos \in (CHOOSE k \in leading : \A m \in leading : m <= k)
                        ..(Len(tmp_bytes) - Len(SYNC)) :
                SubSeq(tmp_bytes, pos + 1, pos + Len(SYNC)) = SYNC },
            LAMBDA hits :
            [ stream |-> tmp_bytes,
              strength |-> sum_range(LAMBDA k : abs(accs[k]), 1, nsym),
              found_pos |-> IF hits = {} THEN None
                            ELSE Some(CHOOSE pos \in hits :
                                        \A m \in hits : pos <= m) ]))))

\* The lowest of the offsets 0..n-1 that hold the sync, whatever its position.
best_idx_lowest_offset(cands, n) ==
    LET found == { o \in 1..n : cands[o].found_pos.tag = "Some" }
    IN  IF found = {} THEN None
        ELSE Let(CHOOSE o \in found : \A u \in found : o <= u, LAMBDA o :
                 Some(<< o - 1, cands[o].found_pos.value >>))

\* demodulate: `best_idx` after the offsets 0..n-1.
RECURSIVE best_idx_upto(_, _)
best_idx_upto(cands, n) ==
    IF n = 0 THEN None
    ELSE LET best == best_idx_upto(cands, n - 1)
             found == cands[n].found_pos
         IN  IF found.tag = "None" THEN best
             ELSE Let(best, LAMBDA b :
                      IF b.tag = "None" THEN Some(<< n - 1, found.value >>)
                      ELSE IF found.value < b.value[2]
                      THEN Some(<< n - 1, found.value >>)
                      ELSE b)

\* demodulate: `best_o` after the strengths 0..n-1 (the first of the largest).
RECURSIVE best_o_upto(_, _)
best_o_upto(cands, n) ==
    IF n = 1 THEN 0
    ELSE Let(best_o_upto(cands, n - 1), LAMBDA best :
             IF cands[n].strength > cands[best + 1].strength THEN n - 1 ELSE best)

\* BpskDemodulator::demodulate: the bytes left in `output` (it returns Ok(())).
demodulate(config, samples) ==
    LET sps == samples_per_symbol(config)
    IN  IF sps = 0 THEN << >>
        ELSE Let(SubSeq([ i \in 1..Len(samples) |->
                            samples[i].real * cos_phase(config, i - 1)
                            + samples[i].imag * sin_phase(config, i - 1) ],
                        1, Len(samples)),
                 LAMBDA bb_real :
             Let(SubSeq([ o \in 1..sps |-> demod_candidate(bb_real, sps, o - 1) ],
                        1, sps),
                 LAMBDA cands :
             Let(best_idx_upto(cands, sps), LAMBDA best_idx :
                 IF best_idx.tag = "Some" THEN cands[best_idx.value[1] + 1].stream
                 ELSE cands[best_o_upto(cands, sps) + 1].stream)))

\* ------------------------------------------------------------------------
\* crates/tools: the transmitters
\* ------------------------------------------------------------------------

\* SimpleTransmitter::generate_data_transmission with ModulationType::Bpsk:
\* the bytes handed to modulator.modulate and the samples returned. `order`
\* is the iteration order met by HuffmanCodec::new_english().
generate_data_transmission(config, order) ==
    LET mod_config == ModulationConfig_new(config.sample_rate, config.symbol_rate,
                                           config.center_freq)
    IN  IF mod_config.tag # "Ok" THEN mod_config
        ELSE Let(IF config.text_codec = "Huffman"
                 THEN encode(EnglishCodecs[order], config.text)
                 ELSE ascii_encode(config.text),
                 LAMBDA encoded_data :
             Let(Frame_to_bytes(Frame_new(1, 0, encoded_data, 0)),
                 LAMBDA frame_bytes :
             Let(SYNC \o frame_bytes, LAMBDA tx_data :
                 Ok([ encoded_data |-> encoded_data, modulated |-> tx_data,
                      samples |-> modulate(mod_config.value, 0, tx_data) ]))))

\* Transmitter::transmit (tools/src/tx.rs) on a transmitter built by
\* Transmitter::new from a valid configuration (modulation "bpsk", codec
\* "huffman" or "ascii"), whose modulator has produced `counter` samples.
Transmitter_transmit(config, order, counter) ==
    LET mod_config == ModulationConfig_new(config.sample_rate, config.symbol_rate,
                                           config.center_freq)
    IN  Let(IF config.text_codec = "Huffman"
            THEN encode(EnglishCodecs[order], config.text)
            ELSE as_bytes(config.text),
            LAMBDA encoded_data :
        Let(Frame_to_bytes(Frame_new(1, 0, encoded_data, 0)), LAMBDA frame_bytes :
            Ok([ encoded_data |-> encoded_data, modulated |-> frame_bytes,
                 samples |-> modulate(mod_config.value, counter, frame_bytes) ])))

\* ------------------------------------------------------------------------
\* crates/tools/src/bin/openham-main.rs: SimpleReceiver
\* ------------------------------------------------------------------------

\* format!("{:02x}", b): two lower-case hexadecimal digits.
hex_digit(n) == IF n < 10 THEN 48 + n ELSE 87 + n

RECURSIVE hex_string(_, _)
hex_string(data, k) ==
    IF k > Len(data) THEN << >>
    ELSE << hex_digit(data[k] \div 16), hex_digit(data[k] % 16) >>
         \o hex_string(data, k + 1)

\* decode_payload: the order of the attempts under the codec hint.
attempts(text_codec) ==
    IF text_codec = Some("Ascii") THEN << "utf8", "huffman", "hex" >>
    ELSE << "huffman", "utf8", "hex" >>

\* decode_payload, the loop `for method in attempts` from attempt k on; the
\* fallback is "HEX:" followed by the hexadecimal digits.
RECURSIVE decode_payload_from(_, _, _, _)
decode_payload_from(methods, k, order, data) ==
    IF k > Len(methods) THEN Ok(<< 72, 69, 88, 58 >> \o hex_string(data, 1))
    ELSE Let(CASE methods[k] = "huffman" ->
                      Let(decode(EnglishCodecs[order], data), LAMBDA d :
                          IF d.tag = "Ok" THEN Some(d.value) ELSE None)
               [] methods[k] = "utf8" -> from_utf8(data)
               [] OTHER -> None,
             LAMBDA r :
                 IF r.tag = "Some" THEN Ok(r.value)
                 ELSE decode_payload_from(methods, k + 1, order, data))

\* A decode_payload that hands back the result of the Huffman decoder alone.
decode_payload_huffman_only(text_codec, order, data) ==
    decode(EnglishCodecs[order], data)

\* SimpleReceiver::decode_payload
decode_payload(text_codec, order, data) ==
    decode_payload_from(attempts(text_codec), 1, order, data)

\* A receiver that tries FSK before BPSK.
demodulator_names_fsk_first(config) ==
    IF config.auto_detect
    THEN << "FSK", "BPSK", "OFDM", "QPSK", "16QAM", "AFSK" >>
    ELSE << config.modulation >>

\* receive: the demodulators tried.
demodulator_names(config) ==
    IF config.auto_detect
    THEN << "BPSK", "FSK", "OFDM", "QPSK", "16QAM", "AFSK" >>
    ELSE << config.modulation >>

\* receive, one pass of `for (name, demodulator) in &mut demodulators`:
\* `demodulated` is what demodulator.demodulate returned, Ok(bytes) or an
\* error. The result is Ok(decoded_messages) or the error that `?` returns.
receive_pass(config, order, name, demodulated, decoded_messages) ==
    LET push(frame_) ==
            Let(decode_payload(config.text_codec, order, frame_.payload),
                LAMBDA text_ :
                    IF text_.tag = "Ok"
                    THEN Ok(Append(decoded_messages, << name, text_.value >>))
                    ELSE text_)
    IN  IF demodulated.tag # "Ok" \/ demodulated.value = << >>
        THEN Ok(decoded_messages)
        ELSE Let(extract_frame_data_any_alignment(demodulated.value),
                 LAMBDA frame_bytes :
             IF frame_bytes.tag = "None" THEN Ok(decoded_messages)
             ELSE Let(Frame_from_bytes(frame_bytes.value), LAMBDA first :
                  IF first.tag = "Ok" THEN push(first.value)
                  ELSE Let(Frame_from_bytes([ k \in 1..Len(frame_bytes.value) |->
                                                Not8(frame_bytes.value[k]) ]),
                           LAMBDA second :
                               IF second.tag = "Ok" THEN push(second.value)
                               ELSE Ok(decoded_messages))))

\* A pass that parses the inverted slice whether the direct parse failed or not.
receive_pass_calls_both(demodulated) ==
    IF demodulated.tag # "Ok" \/ demodulated.value = << >>
    THEN [ frame_bytes |-> None, calls |-> << >> ]
    ELSE Let(extract_frame_data_any_alignment(demodulated.value),
             LAMBDA frame_bytes :
         IF frame_bytes.tag = "None" THEN [ frame_bytes |-> None, calls |-> << >> ]
         ELSE Let([ k \in 1..Len(frame_bytes.value) |-> Not8(frame_bytes.value[k]) ],
                  LAMBDA inverted_data :
              [ frame_bytes |-> frame_bytes,
                calls |-> << [ arg |-> frame_bytes.value,
                               ok |-> Frame_from_bytes(frame_bytes.value).tag = "Ok" ],
                             [ arg |-> inverted_data,
                               ok |-> Frame_from_bytes(inverted_data).tag = "Ok" ] >> ]))

\* receive, one pass of the loop: the slice the sync search returned (what
\* "Found frame sync; trying {} bytes after sync" reports) and the calls of
\* Frame::from_bytes the pass makes, in order, each with its argument and
\* whether it returned Ok.
receive_pass_calls(demodulated) ==
    IF demodulated.tag # "Ok" \/ demodulated.value = << >>
    THEN [ frame_bytes |-> None, calls |-> << >> ]
    ELSE Let(extract_frame_data_any_alignment(demodulated.value),
             LAMBDA frame_bytes :
         IF frame_bytes.tag = "None" THEN [ frame_bytes |-> None, calls |-> << >> ]
         ELSE Let(Frame_from_bytes(frame_bytes.value), LAMBDA first :
              IF first.tag = "Ok"
              THEN [ frame_bytes |-> frame_bytes,
                     calls |-> << [ arg |-> frame_bytes.value, ok |-> TRUE ] >> ]
              ELSE Let([ k \in 1..Len(frame_bytes.value) |->
                           Not8(frame_bytes.value[k]) ],
                       LAMBDA inverted_data :
                   [ frame_bytes |-> frame_bytes,
                     calls |-> << [ arg |-> frame_bytes.value, ok |-> FALSE ],
                                  [ arg |-> inverted_data,
                                    ok |-> Frame_from_bytes(inverted_data).tag
                                               = "Ok" ] >> ])))

\* ------------------------------------------------------------------------
\* State
\* ------------------------------------------------------------------------

VARIABLES
    \* the frame layer
    builder,      \* the FrameBuilder under construction, or None
    frame,        \* the Frame built by Frame::new / FrameBuilder::build, or None
    frameOp,      \* how `frame` was obtained: "none", "new" or "build"
    wire,         \* the bytes handed to Frame::from_bytes
    flipped,      \* the bit of `wire` inverted since to_bytes (-1: none)
    parseResult,  \* the result of Frame::from_bytes(wire), or None
    \* the text codec
    codecs,       \* the HuffmanCodec instances constructed
    text,         \* the text handed to encode
    encoder,      \* the instance that encoded (0: none yet)
    encoded,      \* the bytes encode returned
    decoder,      \* the instance that decoded (0: none yet)
    decoded,      \* the result of decode(encoded), or None
    \* the signal chain
    stage,        \* "idle", "modulated", "sent", "received", "extracted", "parsed"
    txPath,       \* the transmitter that produced the signal
    txPayload,    \* the frame payload (the encoded text)
    modConfig,    \* the ModulationConfig of modulator and demodulator, or None
    modInput,     \* the bytes handed to the modulator
    samples,      \* the complex samples the modulator returned
    channel,      \* what the channel did to the byte stream
    rxBytes,      \* the bytes the receiver's demodulator delivered
    extracted,    \* the result of extract_frame_data_any_alignment(rxBytes)
    rxFrame,      \* the result of Frame::from_bytes on the extracted bytes
    \* SimpleReceiver::receive
    rxConfig,         \* the ReceiveConfig, or None before the call
    demodulators,     \* the names of the demodulators of the call
    rxPos,            \* the demodulators the loop has passed
    rxLog,            \* the names printed by "Trying {} demodulator"
    rxSkipped,        \* the passes that added no message
    rxPasses,         \* per pass: the post-sync slice, the calls of
                      \* Frame::from_bytes and the messages pushed
    decoded_messages, \* the messages collected so far
    rxResult,         \* what receive returned, or None while it runs
    \* one modulator or demodulator instance
    modem,            \* its fields, or None when none is constructed
    modemLog,         \* the calls made on it: operation, input, output and
                      \* the fields after the call
    \* SimpleTransmitter::transmit
    txCall            \* the call made: its config, the segments generated
                      \* and the result, or None before the call

frameVars == << builder, frame, frameOp, wire, flipped, parseResult >>
codecVars == << codecs, text, encoder, encoded, decoder, decoded >>
chainVars == << stage, txPath, txPayload, modConfig, modInput, samples, channel,
                rxBytes, extracted, rxFrame >>
rxVars == << rxConfig, demodulators, rxPos, rxLog, rxSkipped, rxPasses, decoded_messages,
             rxResult >>

modemVars == << modem, modemLog >>

coordVars == << txCall >>

vars == << frameVars, codecVars, chainVars, rxVars, modemVars, coordVars >>

FrameIdle ==
    /\ builder = None
    /\ frame = None
    /\ frameOp = "none"
    /\ wire = << >>
    /\ flipped = -1
    /\ parseResult = None

CodecIdle ==
    /\ text = << >>
    /\ encoder = 0
    /\ encoded = << >>
    /\ decoder = 0
    /\ decoded = None

ChainIdle ==
    /\ stage = "idle"
    /\ txPath = "none"
    /\ txPayload = << >>
    /\ modConfig = None
    /\ modInput = << >>
    /\ samples = << >>
    /\ channel = << "none" >>
    /\ rxBytes = << >>
    /\ extracted = None
    /\ rxFrame = None

RxIdle ==
    /\ rxConfig = None
    /\ demodulators = << >>
    /\ rxPos = 0
    /\ rxLog = << >>
    /\ rxSkipped = 0
    /\ rxPasses = << >>
    /\ decoded_messages = << >>
    /\ rxResult = None

ModemIdle ==
    /\ modem = None
    /\ modemLog = << >>

CoordIdle == txCall = None

\* ------------------------------------------------------------------------
\* The frame layer
\* ------------------------------------------------------------------------

\* The inputs the frame operations are driven with.
FrameTypes == { 1, 255 }
Sequences16 == { 0, 256, 65535 }
FlagValues == { 0, 255 }
PayloadBytes == { 0, 255 }

\* The longest payload a u16 can count, and a payload one byte longer.
FullPayload == [ i \in 1..(U16 - 1) |-> 0 ]
LongPayload == [ i \in 1..U16 |-> 0 ]

Payloads == SeqsUpTo(PayloadBytes, MaxPayloadLen) \cup { FullPayload, LongPayload }

\* Frame::new(frame_type, sequence, payload, flags)
DoFrameNew(frame_type, sequence, payload, flags) ==
    /\ frameOp = "none" /\ builder = None
    /\ frame' = Frame_new(frame_type, sequence, payload, flags)
    /\ frameOp' = "new"
    /\ UNCHANGED << builder, wire, flipped, parseResult >>
    /\ UNCHANGED << codecVars, chainVars, rxVars, modemVars, coordVars >>

\* FrameBuilder::new(frame_type)
DoBuilderNew(frame_type) ==
    /\ frameOp = "none" /\ builder = None
    /\ builder' = Some(FrameBuilder_new(frame_type))
    /\ UNCHANGED << frame, frameOp, wire, flipped, parseResult >>
    /\ UNCHANGED << codecVars, chainVars, rxVars, modemVars, coordVars >>

\* builder.sequence(sequence)
DoBuilderSequence(sequence) ==
    /\ frameOp = "none" /\ builder # None
    /\ builder' = Some(FrameBuilder_sequence(builder.value, sequence))
    /\ UNCHANGED << frame, frameOp, wire, flipped, parseResult >>
    /\ UNCHANGED << codecVars, chainVars, rxVars, modemVars, coordVars >>

\* builder.flags(flags)
DoBuilderFlags(flags) ==
    /\ frameOp = "none" /\ builder # None
    /\ builder' = Some(FrameBuilder_flags(builder.value, flags))
    /\ UNCHANGED << frame, frameOp, wire, flipped, parseResult >>
    /\ UNCHANGED << codecVars, chainVars, rxVars, modemVars, coordVars >>

\* builder.build(payload): consumes the builder.
DoBuilderBuild(payload) ==
    /\ frameOp = "none" /\ builder # None
    /\ frame' = FrameBuilder_build(builder.value, payload)
    /\ frameOp' = "build"
    /\ builder' = None
    /\ UNCHANGED << wire, flipped, parseResult >>
    /\ UNCHANGED << codecVars, chainVars, rxVars, modemVars, coordVars >>

\* frame.to_bytes()
DoToBytes ==
    /\ frameOp # "none" /\ wire = << >> /\ parseResult = None
    /\ wire' = Frame_to_bytes(frame)
    /\ UNCHANGED << builder, frame, frameOp, flipped, parseResult >>
    /\ UNCHANGED << codecVars, chainVars, rxVars, modemVars, coordVars >>

\* The channel inverts bit k (0 = most significant bit of the first byte) of
\* the serialized frame's first six bytes.
DoFlipHeaderBit(k) ==
    /\ wire # << >> /\ flipped = -1 /\ parseResult = None
    /\ wire' = [ wire EXCEPT ![(k \div 8) + 1] = FlipBit(@, 7 - (k % 8)) ]
    /\ flipped' = k
    /\ UNCHANGED << builder, frame, frameOp, parseResult >>
    /\ UNCHANGED << codecVars, chainVars, rxVars, modemVars, coordVars >>

\* Frame::from_bytes(&wire)
DoFromBytes ==
    /\ wire # << >> /\ parseResult = None
    /\ parseResult' = Frame_from_bytes(wire)
    /\ UNCHANGED << builder, frame, frameOp, wire, flipped >>
    /\ UNCHANGED << codecVars, chainVars, rxVars, modemVars, coordVars >>

InitFrame == FrameIdle /\ codecs = << >> /\ CodecIdle /\ ChainIdle /\ RxIdle /\ CoordIdle /\ ModemIdle

NextFrame ==
    \/ \E ft \in FrameTypes, s \in Sequences16, p \in Payloads, fl \in FlagValues :
          DoFrameNew(ft, s, p, fl)
    \/ \E ft \in FrameTypes : DoBuilderNew(ft)
    \/ \E s \in Sequences16 : DoBuilderSequence(s)
    \/ \E fl \in FlagValues : DoBuilderFlags(fl)
    \/ \E p \in Payloads : DoBuilderBuild(p)
    \/ DoToBytes
    \/ \E k \in 0..(8 * 6 - 1) : DoFlipHeaderBit(k)
    \/ DoFromBytes

SpecFrame == InitFrame /\ [][NextFrame]_vars

\* Frame::from_bytes on the first n bytes of frame.to_bytes().
DoFromBytesTruncated(n) ==
    /\ frameOp # "none" /\ wire = << >> /\ parseResult = None
    /\ n < Len(Frame_to_bytes(frame))
    /\ wire' = SubSeq(Frame_to_bytes(frame), 1, n)
    /\ parseResult' = Frame_from_bytes(SubSeq(Frame_to_bytes(frame), 1, n))
    /\ UNCHANGED << builder, frame, frameOp, flipped >>
    /\ UNCHANGED << codecVars, chainVars, rxVars, modemVars, coordVars >>

\* Frame::from_bytes on frame.to_bytes() followed by the bytes `extra`.
DoFromBytesExtended(extra) ==
    /\ frameOp # "none" /\ wire = << >> /\ parseResult = None
    /\ wire' = Frame_to_bytes(frame) \o extra
    /\ parseResult' = Frame_from_bytes(Frame_to_bytes(frame) \o extra)
    /\ UNCHANGED << builder, frame, frameOp, flipped >>
    /\ UNCHANGED << codecVars, chainVars, rxVars, modemVars, coordVars >>

\* Frame::from_bytes on inputs shorter and longer than the frame.
NextFrameSize ==
    \/ \E ft \in FrameTypes, s \in Sequences16, p \in Payloads, fl \in FlagValues :
          DoFrameNew(ft, s, p, fl)
    \/ \E n \in 0..(SIZE + MaxPayloadLen) : DoFromBytesTruncated(n)
    \/ \E extra \in SeqsUpTo(PayloadBytes, MaxPayloadLen) : DoFromBytesExtended(extra)

SpecFrameSize == InitFrame /\ [][NextFrameSize]_vars

\* ------------------------------------------------------------------------
\* The text codec
\* ------------------------------------------------------------------------

\* The characters texts are made of: space, C, Q, T, c, q (all in the encode
\* table) and U+0160, which is not.
TextChars == { 32, 67, 81, 84, 99, 113, 352 }

Texts == SeqsUpTo(TextChars, MaxTextLen)

\* codec.encode(text) on instance c
DoEncode(c, t) ==
    /\ encoder = 0
    /\ text' = t
    /\ encoder' = c
    /\ encoded' = encode(codecs[c], t)
    /\ UNCHANGED << codecs, decoder, decoded >>
    /\ UNCHANGED << frameVars, chainVars, rxVars, modemVars, coordVars >>

\* codec.decode(&encoded) on instance c
DoDecode(c) ==
    /\ encoder # 0 /\ decoder = 0
    /\ decoder' = c
    /\ decoded' = decode(codecs[c], encoded)
    /\ UNCHANGED << codecs, text, encoder, encoded >>
    /\ UNCHANGED << frameVars, chainVars, rxVars, modemVars, coordVars >>

\* Two instances have been constructed by HuffmanCodec::new_english(), each
\* under one of the iteration orders.
InitCodec ==
    /\ codecs \in { << EnglishCodecs[a], EnglishCodecs[b] >> :
                      a \in 1..NumHashOrders, b \in 1..NumHashOrders }
    /\ CodecIdle /\ FrameIdle /\ ChainIdle /\ RxIdle /\ CoordIdle /\ ModemIdle

NextCodec ==
    \/ \E c \in 1..2, t \in Texts : DoEncode(c, t)
    \/ \E c \in 1..2 : DoDecode(c)

SpecCodec == InitCodec /\ [][NextCodec]_vars

\* The text of test_huffman_no_false_token_inside_words:
\* "from smoky cqsly ombudsman qrzv".
SampleText ==
    << 102, 114, 111, 109, 32, 115, 109, 111, 107, 121, 32, 99, 113, 115,
       108, 121, 32, 111, 109, 98, 117, 100, 115, 109, 97, 110, 32, 113,
       114, 122, 118 >>

\* Texts that spell tokens inside words, at string edges and next to
\* punctuation, digits and spaces.
BoundaryTexts ==
    { SampleText,
      << 97, 99, 113, 117, 105, 114, 101 >>,
      << 99, 113, 115, 108, 121 >>,
      << 111, 109, 98, 117, 100, 115, 109, 97, 110 >>,
      << 113, 114, 122, 118 >>,
      << 67, 81 >>,
      << 99, 113 >>,
      << 67, 81, 32, 68, 69 >>,
      << 97, 32, 111, 109, 46 >>,
      << 111, 109 >>,
      << 75, 57 >>,
      << 57, 75 >>,
      << 75 >>,
      << 107, 45, 107 >>,
      << 55, 51, 115 >>,
      << 55, 51 >>,
      << 81, 82, 90, 63 >>,
      << 115, 75, 121 >>,
      << 83, 75, 33 >>,
      << 98, 107, 110 >>,
      << 75, 78 >>,
      << 107, 110, 46 >>,
      << 97, 32, 99, 113, 32, 98 >> }

NextBoundary ==
    \/ \E c \in 1..2, t \in BoundaryTexts : DoEncode(c, t)
    \/ \E c \in 1..2 : DoDecode(c)

SpecBoundary == InitCodec /\ [][NextBoundary]_vars

\* The text of test_huffman_no_trailing_space and other short messages.
PaddingTexts ==
    { << 72, 69, 76, 76, 79 >>,
      <<  >>,
      << 101 >>,
      << 32 >>,
      << 101, 116 >>,
      << 67, 81 >>,
      << 55, 51 >>,
      << 97, 32, 98 >>,
      << 104, 105, 46 >>,
      << 72, 101, 108, 108, 111 >>,
      << 81, 82, 90, 63 >> }

\* Values written over the padding positions, and bytes appended after them.
PadPatterns == 0..127
TrailingBytes == { << >>, << 255 >>, << 0, 170 >> }

\* The container with the bits after the first 16 + bit_len replaced by the
\* bits of pattern p, followed by the bytes of extra.
with_padding(data, p, extra) ==
    Let(bytes_bits(data, 1), LAMBDA all_bits :
        LET bit_len == chunk_byte(SubSeq(all_bits, 1, 8), 0) * U8
                       + chunk_byte(SubSeq(all_bits, 9, 16), 0)
        IN  pack_bits([ k \in 1..Len(all_bits) |->
                          IF k > 16 + bit_len THEN Bit(p, k - 17 - bit_len)
                          ELSE all_bits[k] ]) \o extra)

\* The encoded container reaches the decoder with other values in its padding
\* positions and with bytes after it.
DoPad ==
    /\ encoder # 0 /\ decoder = 0
    /\ encoded = encode(codecs[encoder], text)
    /\ \E p \in PadPatterns, extra \in TrailingBytes :
          /\ encoded' = with_padding(encoded, p, extra)
          /\ encoded' # encoded
    /\ UNCHANGED << codecs, text, encoder, decoder, decoded >>
    /\ UNCHANGED << frameVars, chainVars, rxVars, modemVars, coordVars >>

NextPadding ==
    \/ \E c \in 1..2, t \in PaddingTexts : DoEncode(c, t)
    \/ DoPad
    \/ \E c \in 1..2 : DoDecode(c)

SpecPadding == InitCodec /\ [][NextPadding]_vars

\* The container encode builds around a bit string: 16-bit length header,
\* the bits, zero padding to a byte boundary, packed MSB-first.
container(bits) ==
    Let([ k \in 1..16 |-> Bit(as_u16(Len(bits)), 16 - k) ] \o bits,
        LAMBDA full_bits :
            pack_bits(full_bits
                      \o [ k \in 1..((8 - (Len(full_bits) % 8)) % 8) |-> 0 ]))

\* The codes of the characters of a text, one after another.
RECURSIVE literal_bits(_, _)
literal_bits(codec, t) ==
    IF t = << >> THEN << >>
    ELSE codec.encode_table[Head(t)] \o literal_bits(codec, Tail(t))

\* An escape as the decoder reads it: 20 ones, two bits of (n - 1), n bytes.
raw_escape(bytes) ==
    [ k \in 1..20 |-> 1 ]
    \o << Bit(Len(bytes) - 1, 1), Bit(Len(bytes) - 1, 0) >>
    \o bytes_bits(bytes, 1)

\* Byte sequences of 1..4 bytes that std::str::from_utf8 rejects.
InvalidUtf8 ==
    { << 255 >>, << 128 >>, << 195 >>, << 192, 32 >>, << 101, 200 >>,
      << 224, 128, 128 >>, << 237, 160, 128 >>, << 244, 144, 128, 128 >> }

\* Data of fewer than two bytes.
ShortData == { << >>, << 0 >>, << 8 >>, << 255 >> }

\* Texts decoded before the escape, and bits that follow it.
PrefixTexts == { << >>, << 101 >>, << 32 >>, << 116 >>, << 97 >>, << 101, 116 >>,
                 << 104, 105 >>, << 113 >> }
SuffixBits == { << >>, << 0 >>, << 1, 0, 1 >>, << 0, 0, 0, 0, 1, 1, 1, 1, 0 >> }

\* decode is handed data shorter than the header.
DoShortData(data) ==
    /\ encoder = 0
    /\ encoder' = 1
    /\ text' = << >>
    /\ encoded' = data
    /\ UNCHANGED << codecs, decoder, decoded >>
    /\ UNCHANGED << frameVars, chainVars, rxVars, modemVars, coordVars >>

\* decode is handed a container whose escape carries bytes that are not UTF-8.
DoBadEscape(c, t, bad, suffix) ==
    /\ encoder = 0
    /\ encoder' = c
    /\ text' = t
    /\ encoded' = container(literal_bits(codecs[c], t) \o raw_escape(bad) \o suffix)
    /\ UNCHANGED << codecs, decoder, decoded >>
    /\ UNCHANGED << frameVars, chainVars, rxVars, modemVars, coordVars >>

NextFailure ==
    \/ \E data \in ShortData : DoShortData(data)
    \/ \E c \in 1..2, t \in PrefixTexts, bad \in InvalidUtf8, suffix \in SuffixBits :
          DoBadEscape(c, t, bad, suffix)
    \/ \E c \in 1..2 : DoDecode(c)

SpecFailure == InitCodec /\ [][NextFailure]_vars

\* ------------------------------------------------------------------------
\* The signal chain
\* ------------------------------------------------------------------------

\* The modulation settings: 8 samples/s at 2 or 4 symbols/s, the carrier at
\* 0 or at a quarter of the sample rate.
ModSettings ==
    { [ sample_rate |-> 8, symbol_rate |-> r, center_freq |-> f ] :
        r \in { 2, 4 }, f \in { 0, 2 } }

\* The bytes that follow the preamble in a sync search.
TailBytes == { 1, 126, 252 }

\* The bytes of the payloads sent through the modem.
ModemBytes == { 0, 126, 255 }

\* A byte stream that begins with the preamble is handed to the channel.
DoSend(tail) ==
    /\ stage = "idle"
    /\ modInput' = SYNC \o tail
    /\ stage' = "sent"
    /\ UNCHANGED << txPath, txPayload, modConfig, samples, channel, rxBytes,
                    extracted, rxFrame >>
    /\ UNCHANGED << frameVars, codecVars, rxVars, modemVars, coordVars >>

\* The channel delays the stream by k bits.
DoShift(k) ==
    /\ stage = "sent"
    /\ channel' = << "shift", k >>
    /\ rxBytes' = shift_stream(modInput, k)
    /\ stage' = "received"
    /\ UNCHANGED << txPath, txPayload, modConfig, modInput, samples, extracted,
                    rxFrame >>
    /\ UNCHANGED << frameVars, codecVars, rxVars, modemVars, coordVars >>

\* The channel reverses the bit order.
DoReverse ==
    /\ stage = "sent"
    /\ channel' = << "reverse" >>
    /\ rxBytes' = reverse_stream(modInput)
    /\ stage' = "received"
    /\ UNCHANGED << txPath, txPayload, modConfig, modInput, samples, extracted,
                    rxFrame >>
    /\ UNCHANGED << frameVars, codecVars, rxVars, modemVars, coordVars >>

\* extract_frame_data_any_alignment(&rxBytes)
DoExtract ==
    /\ stage = "received"
    /\ extracted' = extract_frame_data_any_alignment(rxBytes)
    /\ stage' = "extracted"
    /\ UNCHANGED << txPath, txPayload, modConfig, modInput, samples, channel,
                    rxBytes, rxFrame >>
    /\ UNCHANGED << frameVars, codecVars, rxVars, modemVars, coordVars >>

\* sync preamble || Frame::new(1, 0, payload, 0).to_bytes() through a new
\* BpskModulator.
DoModulate(cfg, payload) ==
    /\ stage = "idle"
    /\ \E mod_config \in { ModulationConfig_new(cfg.sample_rate, cfg.symbol_rate,
                                                  cfg.center_freq).value },
          tx_data \in { SYNC \o Frame_to_bytes(Frame_new(1, 0, payload, 0)) } :
           /\ modConfig' = Some(mod_config)
           /\ modInput' = tx_data
           /\ samples' = modulate(mod_config, 0, tx_data)
    /\ txPayload' = payload
    /\ txPath' = "modem"
    /\ stage' = "modulated"
    /\ UNCHANGED << channel, rxBytes, extracted, rxFrame >>
    /\ UNCHANGED << frameVars, codecVars, rxVars, modemVars, coordVars >>

\* A new BpskDemodulator of the same configuration demodulates the samples.
DoDemodulate ==
    /\ stage = "modulated"
    /\ rxBytes' = demodulate(modConfig.value, samples)
    /\ stage' = "received"
    /\ UNCHANGED << txPath, txPayload, modConfig, modInput, samples, channel,
                    extracted, rxFrame >>
    /\ UNCHANGED << frameVars, codecVars, rxVars, modemVars, coordVars >>

\* Frame::from_bytes on the bytes after the sync, if any were found.
DoParse ==
    /\ stage = "extracted"
    /\ rxFrame' = IF extracted.tag = "Some" THEN Frame_from_bytes(extracted.value)
                  ELSE None
    /\ stage' = "parsed"
    /\ UNCHANGED << txPath, txPayload, modConfig, modInput, samples, channel,
                    rxBytes, extracted >>
    /\ UNCHANGED << frameVars, codecVars, rxVars, modemVars, coordVars >>

\* SimpleTransmitter::generate_data_transmission (its error returns leave
\* nothing modulated; the settings of the model are all valid).
DoGenerateDataTransmission(cfg, codec, t, order) ==
    /\ stage = "idle"
    /\ \E r \in { generate_data_transmission(
                    [ sample_rate |-> cfg.sample_rate, symbol_rate |-> cfg.symbol_rate,
                      center_freq |-> cfg.center_freq, text_codec |-> codec,
                      text |-> t ], order) } :
           /\ r.tag = "Ok"
           /\ txPayload' = r.value.encoded_data
           /\ modInput' = r.value.modulated
           /\ samples' = r.value.samples
    /\ modConfig' = Some(ModulationConfig_new(cfg.sample_rate, cfg.symbol_rate,
                                              cfg.center_freq).value)
    /\ txPath' = "SimpleTransmitter"
    /\ stage' = "modulated"
    /\ UNCHANGED << channel, rxBytes, extracted, rxFrame >>
    /\ UNCHANGED << frameVars, codecVars, rxVars, modemVars, coordVars >>

\* Transmitter::transmit on a transmitter just built by Transmitter::new.
DoTransmit(cfg, codec, t, order) ==
    /\ stage = "idle"
    /\ \E r \in { Transmitter_transmit(
                    [ sample_rate |-> cfg.sample_rate, symbol_rate |-> cfg.symbol_rate,
                      center_freq |-> cfg.center_freq, text_codec |-> codec,
                      text |-> t ], order, 0) } :
           /\ r.tag = "Ok"
           /\ txPayload' = r.value.encoded_data
           /\ modInput' = r.value.modulated
           /\ samples' = r.value.samples
    /\ modConfig' = Some(ModulationConfig_new(cfg.sample_rate, cfg.symbol_rate,
                                              cfg.center_freq).value)
    /\ txPath' = "Transmitter"
    /\ stage' = "modulated"
    /\ UNCHANGED << channel, rxBytes, extracted, rxFrame >>
    /\ UNCHANGED << frameVars, codecVars, rxVars, modemVars, coordVars >>

InitChain == ChainIdle /\ FrameIdle /\ codecs = << >> /\ CodecIdle /\ RxIdle /\ CoordIdle /\ ModemIdle

\* The sync search under the channel's bit shifts and bit-order reversal.
NextSync ==
    \/ \E tail \in SeqsUpTo(TailBytes, MaxPayloadLen) \ { << >> } : DoSend(tail)
    \/ \E k \in 0..7 : DoShift(k)
    \/ DoReverse
    \/ DoExtract

SpecSync == InitChain /\ [][NextSync]_vars

\* BPSK end to end.
NextModem ==
    \/ \E cfg \in ModSettings, p \in SeqsUpTo(ModemBytes, MaxPayloadLen) :
          DoModulate(cfg, p)
    \/ DoDemodulate
    \/ DoExtract
    \/ DoParse

SpecModem == InitChain /\ [][NextModem]_vars

\* The two transmitters.
NextTx ==
    \/ \E cfg \in ModSettings, codec \in { "Huffman", "Ascii" }, t \in Texts,
          order \in 1..NumHashOrders :
          DoGenerateDataTransmission(cfg, codec, t, order)
    \/ \E cfg \in ModSettings, codec \in { "Huffman", "Ascii" }, t \in Texts,
          order \in 1..NumHashOrders :
          DoTransmit(cfg, codec, t, order)

SpecTx == InitChain /\ [][NextTx]_vars

\* ------------------------------------------------------------------------
\* SimpleReceiver::receive
\* ------------------------------------------------------------------------

\* The ReceiveConfig values: a valid and an invalid symbol rate.
ReceiveConfigs ==
    { [ sample_rate |-> 8, symbol_rate |-> r, center_freq |-> 2,
        auto_detect |-> a, modulation |-> m, text_codec |-> h ] :
        r \in { 2, 5 }, a \in BOOLEAN, m \in { "bpsk", "fsk" },
        h \in { None, Some("Huffman"), Some("Ascii") } }

\* A frame as the transmitter sends it, its payload the bytes 00 04 00 (the
\* Huffman coding of " ", and well-formed UTF-8), and one with the payload FF
\* (neither).
SentFrame == SYNC \o Frame_to_bytes(Frame_new(1, 0, << 0, 4, 0 >>, 0))
SentHexFrame == SYNC \o Frame_to_bytes(Frame_new(1, 0, << 255 >>, 0))

\* What a demodulator can return for the sample buffer: an error, no bytes,
\* bytes without a sync, a sync followed by bytes that are no frame, a frame,
\* and a frame with every bit inverted.
DemodulateResults ==
    { [ tag |-> "Err" ], Ok(<< >>), Ok(<< 1, 2, 3 >>), Ok(SYNC \o << 1, 2, 3 >>),
      Ok(SentFrame), Ok([ k \in 1..Len(SentHexFrame) |-> Not8(SentHexFrame[k]) ]) }

\* receive, up to the loop: ModulationConfig::new(...)? and the demodulators.
DoReceiveStart(config) ==
    /\ rxConfig = None
    /\ rxConfig' = Some(config)
    /\ LET mod_config == ModulationConfig_new(config.sample_rate, config.symbol_rate,
                                              config.center_freq)
       IN  IF mod_config.tag = "Ok"
           THEN /\ demodulators' = demodulator_names(config)
                /\ rxResult' = None
           ELSE /\ demodulators' = << >>
                /\ rxResult' = mod_config
    /\ UNCHANGED << rxPos, rxLog, rxSkipped, rxPasses, decoded_messages >>
    /\ UNCHANGED << frameVars, codecVars, chainVars, modemVars, coordVars >>

\* receive, one pass of the loop over the demodulators.
DoReceivePass(demodulated, order) ==
    /\ rxConfig # None /\ rxResult = None /\ rxPos < Len(demodulators)
    /\ \E r \in { receive_pass(rxConfig.value, order, demodulators[rxPos + 1],
                                 demodulated, decoded_messages) } :
           /\ rxLog' = Append(rxLog, demodulators[rxPos + 1])
           /\ rxPasses' =
                  Append(rxPasses,
                         [ name |-> demodulators[rxPos + 1],
                           frame_bytes |-> receive_pass_calls(demodulated).frame_bytes,
                           calls |-> receive_pass_calls(demodulated).calls,
                           pushed |-> IF r.tag = "Ok"
                                      THEN SubSeq(r.value, Len(decoded_messages) + 1,
                                                  Len(r.value))
                                      ELSE << >> ])
           /\ IF r.tag = "Ok"
              THEN /\ decoded_messages' = r.value
                   /\ rxSkipped' = IF r.value = decoded_messages
                                   THEN rxSkipped + 1 ELSE rxSkipped
                   /\ rxPos' = rxPos + 1
                   /\ rxResult' = None
              ELSE /\ rxResult' = r
                   /\ UNCHANGED << decoded_messages, rxSkipped, rxPos >>
    /\ UNCHANGED << rxConfig, demodulators >>
    /\ UNCHANGED << frameVars, codecVars, chainVars, modemVars, coordVars >>

\* receive, after the loop: Ok(decoded_messages).
DoReceiveReturn ==
    /\ rxConfig # None /\ rxResult = None /\ rxPos = Len(demodulators)
    /\ rxResult' = Ok(decoded_messages)
    /\ UNCHANGED << rxConfig, demodulators, rxPos, rxLog, rxSkipped, rxPasses,
                    decoded_messages >>
    /\ UNCHANGED << frameVars, codecVars, chainVars, modemVars, coordVars >>

InitRx == RxIdle /\ CoordIdle /\ ModemIdle /\ FrameIdle /\ codecs = << >> /\ CodecIdle /\ ChainIdle

NextRx ==
    \/ \E config \in ReceiveConfigs : DoReceiveStart(config)
    \/ \E demodulated \in DemodulateResults, order \in 1..NumHashOrders :
          DoReceivePass(demodulated, order)
    \/ DoReceiveReturn

SpecRx == InitRx /\ [][NextRx]_vars

\* ------------------------------------------------------------------------
\* The sync search on the byte streams of a demodulator
\* ------------------------------------------------------------------------

\* The pieces the demodulated streams are made of: the four patterns of the
\* search, a byte that is part of none of them, and six bytes of silence.
SearchPieces ==
    { << >>, << 126, 126 >>, << 129, 129 >>, SYNC, SYNC_INV, << 1 >>,
      << 0, 0, 0, 0, 0, 0 >> }

\* The streams a demodulator hands to the search: three pieces in a row, as
\* they are, delayed by one or three bits, or in the opposite bit order.
SearchStreams ==
    LET plain == { a \o b \o c : a \in SearchPieces, b \in SearchPieces,
                                 c \in { << >>, << 1 >>, << 126, 126 >> } }
    IN  plain
        \cup { shift_stream(d, k) : d \in plain, k \in { 1, 3 } }
        \cup { reverse_stream(d) : d \in plain }

\* receive: `demodulator.demodulate(samples, &mut output_data)` has left
\* `data` in output_data.
DoDemodulated(data) ==
    /\ stage = "idle"
    /\ rxBytes' = data
    /\ channel' = << "demodulated" >>
    /\ stage' = "received"
    /\ UNCHANGED << txPath, txPayload, modConfig, modInput, samples, extracted,
                    rxFrame >>
    /\ UNCHANGED << frameVars, codecVars, rxVars, modemVars, coordVars >>

\* The sync search on what a demodulator delivered.
NextSearch ==
    \/ \E data \in SearchStreams : DoDemodulated(data)
    \/ DoExtract

SpecSearch == InitChain /\ [][NextSearch]_vars

\* ------------------------------------------------------------------------
\* Modulator and demodulator instances: construction, calls and reset
\* ------------------------------------------------------------------------

\* ModulationConfig::new: filter_length
FilterLength == 101

\* The largest number of calls made on one instance.
MaxCalls == 3

\* SignalQuality::default()
SignalQuality_default ==
    [ snr_db |-> 0, evm_percent |-> 0, frequency_offset_hz |-> 0,
      timing_offset_samples |-> 0, phase_error_deg |-> 0 ]

\* PulseShaper::root_raised_cosine: the delay line and its write index (the
\* taps are fixed at construction).
PulseShaper_new(length) ==
    [ delay_line |-> SubSeq([ k \in 1..length |-> Complex(0, 0) ], 1, length),
      index |-> 0 ]

\* PulseShaper::reset
PulseShaper_reset(ps) ==
    [ delay_line |-> SubSeq([ k \in 1..Len(ps.delay_line) |-> Complex(0, 0) ],
                            1, Len(ps.delay_line)),
      index |-> 0 ]

\* BpskModulator::new
BpskModulator_new(config) ==
    [ kind |-> "BpskModulator", config |-> config,
      pulse_shaper |-> PulseShaper_new(FilterLength),
      phase |-> 0, sample_counter |-> 0 ]

\* BpskModulator::modulate: generate_carrier advances sample_counter once per
\* sample. The result is the set of (output, fields after) pairs.
BpskModulator_modulate(self, bytes) ==
    { [ out |-> modulate(self.config, self.sample_counter, bytes),
        state |-> [ self EXCEPT !.sample_counter =
                        @ + 8 * Len(bytes) * samples_per_symbol(self.config) ] ] }

\* A reset that leaves the sample counter where it is.
BpskModulator_reset_keeps_counter(self) ==
    [ self EXCEPT !.pulse_shaper = PulseShaper_reset(@), !.phase = 0 ]

\* BpskModulator::reset
BpskModulator_reset(self) ==
    [ self EXCEPT !.pulse_shaper = PulseShaper_reset(@),
                  !.phase = 0, !.sample_counter = 0 ]

\* BpskDemodulator::new
BpskDemodulator_new(config) ==
    [ kind |-> "BpskDemodulator", config |-> config,
      pulse_shaper |-> PulseShaper_new(FilterLength),
      phase |-> 0, sample_counter |-> 0, is_sync |-> FALSE,
      signal_quality |-> SignalQuality_default ]

\* BpskDemodulator::demodulate: one candidate stream per offset exists
\* whenever samples_per_symbol > 0, so the call ends with is_sync = true.
BpskDemodulator_demodulate(self, input) ==
    { [ out |-> demodulate(self.config, input),
        state |-> IF samples_per_symbol(self.config) = 0 THEN self
                  ELSE [ self EXCEPT !.is_sync = TRUE ] ] }

\* BpskDemodulator::reset
BpskDemodulator_reset(self) ==
    [ self EXCEPT !.pulse_shaper = PulseShaper_reset(@),
                  !.phase = 0, !.sample_counter = 0, !.is_sync = FALSE,
                  !.signal_quality = SignalQuality_default ]

\* FskModulator::new: mark and space 250 Hz above and below the carrier.
FskModulator_new(config) ==
    [ kind |-> "FskModulator", config |-> config, phase |-> 0,
      freq_mark |-> config.carrier_frequency + 250,
      freq_space |-> config.carrier_frequency - 250 ]

\* FskModulator::modulate: `phase` counts samples and wraps at sample_rate.
\* A sample is written as the frequency and the phase count it is computed
\* from.
FskModulator_modulate(self, bytes) ==
    LET sps == samples_per_symbol(self.config)
        total == 8 * Len(bytes) * sps
    IN  { [ out |-> SubSeq([ n \in 1..total |->
                        LET sym == (n - 1) \div sps
                            bit == Bit(bytes[(sym \div 8) + 1], 7 - (sym % 8))
                        IN  [ freq |-> IF bit = 1 THEN self.freq_mark
                                       ELSE self.freq_space,
                              phase |-> (self.phase + n - 1)
                                        % self.config.sample_rate ] ],
                      1, total),
            state |-> [ self EXCEPT !.phase =
                            (@ + total) % self.config.sample_rate ] ] }

\* FskModulator::reset
FskModulator_reset(self) == [ self EXCEPT !.phase = 0 ]

\* FskDemodulator::new
FskDemodulator_new(config) ==
    [ kind |-> "FskDemodulator", config |-> config,
      freq_mark |-> config.carrier_frequency + 250,
      freq_space |-> config.carrier_frequency - 250,
      buffer |-> << >>, bit_buffer |-> 0, bit_count |-> 0 ]

\* cos and sin of 2 PI freq n / sample_rate, for the frequencies of the model,
\* which are multiples of a quarter of the sample rate.
fsk_turns(sample_rate, freq, n) == (((4 * freq) \div sample_rate) * n) % 4

fsk_cos(sample_rate, freq, n) == << 1, 0, -1, 0 >>[fsk_turns(sample_rate, freq, n) + 1]
fsk_sin(sample_rate, freq, n) == << 0, 1, 0, -1 >>[fsk_turns(sample_rate, freq, n) + 1]

\* FskModulator::modulate: the Complex value of the sample computed from
\* the frequency s.freq at the phase count s.phase.
fsk_wave(config, s) ==
    Complex(fsk_cos(config.sample_rate, s.freq, s.phase),
            fsk_sin(config.sample_rate, s.freq, s.phase))

\* FskDemodulator::demodulate, the noncoherent energy detection of one
\* symbol: 1 when e_mark > e_space.
fsk_detect(self, symbol_samples) ==
    LET fs == self.config.sample_rate
        n == Len(symbol_samples)
        mi == sum_range(LAMBDA k : symbol_samples[k + 1].real
                                     * fsk_cos(fs, self.freq_mark, k), 0, n - 1)
        mq == sum_range(LAMBDA k : symbol_samples[k + 1].real
                                     * (-fsk_sin(fs, self.freq_mark, k)), 0, n - 1)
        si == sum_range(LAMBDA k : symbol_samples[k + 1].real
                                     * fsk_cos(fs, self.freq_space, k), 0, n - 1)
        sq == sum_range(LAMBDA k : symbol_samples[k + 1].real
                                     * (-fsk_sin(fs, self.freq_space, k)), 0, n - 1)
    IN  IF mi * mi + mq * mq > si * si + sq * sq THEN 1 ELSE 0

\* The byte stream at this offset, searched for the direct sync only.
fsk_candidate_direct_only(self, buffer, sps, offset) ==
    LET nsym == IF Len(buffer) < offset THEN 0 ELSE (Len(buffer) - offset) \div sps
    IN  Let(pack_bits(SubSeq([ w \in 1..nsym |->
                                 fsk_detect(self, SubSeq(buffer, offset + (w - 1) * sps + 1,
                                                         offset + w * sps)) ], 1, nsym)),
            LAMBDA bytes_acc :
        Let({ pos \in 0..(Len(bytes_acc) - Len(SYNC)) :
                SubSeq(bytes_acc, pos + 1, pos + Len(SYNC)) = SYNC },
            LAMBDA hits :
            [ stream |-> bytes_acc,
              found_pos |-> IF hits = {} THEN None
                            ELSE Some(CHOOSE pos \in hits : \A m \in hits : pos <= m) ]))

\* FskDemodulator::demodulate, the body of `for offset in
\* 0..samples_per_symbol`: the byte stream of the buffer at this offset and
\* the first position of the sync or of its inverse.
fsk_candidate(self, buffer, sps, offset) ==
    LET nsym == IF Len(buffer) < offset THEN 0 ELSE (Len(buffer) - offset) \div sps
    IN  Let(pack_bits(SubSeq([ w \in 1..nsym |->
                                 fsk_detect(self, SubSeq(buffer, offset + (w - 1) * sps + 1,
                                                         offset + w * sps)) ], 1, nsym)),
            LAMBDA bytes_acc :
        Let({ pos \in 0..(Len(bytes_acc) - Len(SYNC)) :
                \/ SubSeq(bytes_acc, pos + 1, pos + Len(SYNC)) = SYNC
                \/ SubSeq(bytes_acc, pos + 1, pos + Len(SYNC_INV)) = SYNC_INV },
            LAMBDA hits :
            [ stream |-> bytes_acc,
              found_pos |-> IF hits = {} THEN None
                            ELSE Some(CHOOSE pos \in hits : \A m \in hits : pos <= m) ]))

\* `max_by_key(|(_, v)| v.len())`: the last of the longest streams.
longest_stream(cands) ==
    CHOOSE o \in 1..Len(cands) :
        /\ \A u \in 1..Len(cands) : Len(cands[u].stream) <= Len(cands[o].stream)
        /\ \A u \in (o + 1)..Len(cands) : Len(cands[u].stream) < Len(cands[o].stream)

\* FskDemodulator::demodulate: the samples join the buffer, which is never
\* drained, and the output is detected from the whole buffer: the stream of
\* the offset with the earliest sync, else the longest stream.
FskDemodulator_demodulate(self, input) ==
    LET sps == samples_per_symbol(self.config)
        buffer == self.buffer \o input
    IN  { [ out |-> IF sps = 0 \/ Len(buffer) < sps THEN << >>
                    ELSE Let(SubSeq([ o \in 1..sps |->
                                        fsk_candidate(self, buffer, sps, o - 1) ], 1, sps),
                             LAMBDA cands :
                         Let(best_idx_upto(cands, sps), LAMBDA best_sync :
                             IF best_sync.tag = "Some"
                             THEN cands[best_sync.value[1] + 1].stream
                             ELSE cands[longest_stream(cands)].stream)),
            state |-> [ self EXCEPT !.buffer = buffer ] ] }

\* FskDemodulator::reset
FskDemodulator_reset(self) ==
    [ self EXCEPT !.buffer = << >>, !.bit_buffer = 0, !.bit_count = 0 ]

\* An OfdmConfig of 8 bins with a 2-sample cyclic prefix: data on bins 1
\* and 2, one pilot on bin 3.
OfdmSetting ==
    [ fft_size |-> 8, cp_length |-> 2, data_carriers |-> << 1, 2 >>,
      pilot_carriers |-> << 3 >>, pilot_symbols |-> << Complex(1, 0) >>,
      null_carriers |-> << 0, 4, 5, 6, 7 >> ]

\* The indices lo..hi-1 in order, as `for i in lo..hi` visits them.
range_seq(lo, hi) == SubSeq([ k \in 1..(hi - lo) |-> lo + k - 1 ], 1, hi - lo)

\* OfdmConfig::amateur_radio_64
amateur_radio_64 ==
    [ fft_size |-> 64, cp_length |-> 16,
      data_carriers |-> SelectSeq(range_seq(1, 32),
                                  LAMBDA i : ~(i = 5 \/ i = 15 \/ i = 25)),
      pilot_carriers |-> << 5, 15, 25 >>,
      pilot_symbols |-> << Complex(1, 0), Complex(-1, 0), Complex(1, 0),
                           Complex(-1, 0), Complex(1, 0) >>,
      null_carriers |-> << 0, 32 >> ]

\* OfdmConfig::robust_128
robust_128 ==
    LET pilots == SelectSeq(range_seq(1, 53), LAMBDA i : i % 7 = 0)
                  \o SelectSeq(range_seq(75, 127), LAMBDA i : i % 7 = 0)
    IN  [ fft_size |-> 128, cp_length |-> 32,
          data_carriers |-> SelectSeq(range_seq(1, 53), LAMBDA i : i % 7 # 0)
                            \o SelectSeq(range_seq(75, 127), LAMBDA i : i % 7 # 0),
          pilot_carriers |-> pilots,
          pilot_symbols |-> [ k \in 1..Len(pilots) |->
                                IF (pilots[k] \div 7) % 2 = 0 THEN Complex(1, 0)
                                ELSE Complex(-1, 0) ],
          null_carriers |-> << 0 >> \o range_seq(53, 75) ]

\* OfdmConfig::symbol_length
symbol_length(ofdm_config) == ofdm_config.fft_size + ofdm_config.cp_length

\* OfdmConfig::num_data_carriers
num_data_carriers(ofdm_config) == Len(ofdm_config.data_carriers)

\* The phase moved on by PI/4 and never wrapped.
advance_pilot_phase_unwrapped(pilot_phase) == pilot_phase + 1

\* `self.pilot_phase += PI / 4.0`, wrapped at 2 PI: the phase in units of
\* PI / 4.
advance_pilot_phase(pilot_phase) ==
    IF pilot_phase + 1 >= 8 THEN pilot_phase + 1 - 8 ELSE pilot_phase + 1

\* OfdmModulator::new
OfdmModulator_new(config, ofdm_config) ==
    [ kind |-> "OfdmModulator", config |-> config, ofdm_config |-> ofdm_config,
      pilot_phase |-> 0 ]

\* OfdmModulator::map_bits_to_symbols: one QPSK symbol per bit pair, MSB
\* first, written as the pair.
map_bits_to_symbols(bytes) ==
    [ j \in 1..(4 * Len(bytes)) |->
        LET byte == bytes[((j - 1) \div 4) + 1]
            k == (j - 1) % 4
        IN  << Bit(byte, 7 - 2 * k), Bit(byte, 6 - 2 * k) >> ]

\* OfdmModulator::modulate: one OFDM symbol per chunk of num_data_carriers
\* data symbols, each carrying the pilots at the current pilot phase, which
\* insert_pilots then advances. An OFDM symbol is written as its data
\* symbols and its pilot phase.
OfdmModulator_modulate(self, bytes) ==
    LET data_symbols == map_bits_to_symbols(bytes)
        per == num_data_carriers(self.ofdm_config)
        count == (Len(data_symbols) + per - 1) \div per
        phase_at[c \in 0..count] ==
            IF c = 0 THEN self.pilot_phase ELSE advance_pilot_phase(phase_at[c - 1])
        lastOf(c) == IF c * per < Len(data_symbols) THEN c * per
                     ELSE Len(data_symbols)
    IN  { [ out |-> SubSeq([ c \in 1..count |->
                        [ data |-> SubSeq(data_symbols, (c - 1) * per + 1, lastOf(c)),
                          pilot_phase |-> phase_at[c - 1] ] ], 1, count),
            state |-> [ self EXCEPT !.pilot_phase = phase_at[count] ] ] }

\* OfdmModulator::reset
OfdmModulator_reset(self) == [ self EXCEPT !.pilot_phase = 0 ]

\* OfdmDemodulator::new
OfdmDemodulator_new(config, ofdm_config) ==
    [ kind |-> "OfdmDemodulator", config |-> config, ofdm_config |-> ofdm_config,
      is_sync |-> FALSE, signal_quality |-> SignalQuality_default,
      channel_estimates |-> SubSeq([ k \in 1..ofdm_config.fft_size |-> Complex(1, 0) ],
                                   1, ofdm_config.fft_size),
      pilot_phase |-> 0, symbol_buffer |-> << >> ]

\* The channel estimates a received pilot can give, and the values the SNR
\* estimate can take.
EstimateValues == { Complex(1, 0), Complex(0, -1) }
SnrValues == { 0, 3 }

\* OfdmDemodulator::estimate_channel with the estimate h at every pilot bin.
estimate_channel(self, h) ==
    [ self EXCEPT
        !.channel_estimates =
            [ k \in 1..Len(@) |->
                IF \E i \in 1..Len(self.ofdm_config.pilot_carriers) :
                      /\ i <= Len(self.ofdm_config.pilot_symbols)
                      /\ self.ofdm_config.pilot_carriers[i] + 1 = k
                THEN h ELSE @[k] ],
        !.pilot_phase = advance_pilot_phase(@) ]

\* OfdmDemodulator::demodulate, the loop `while symbol_buffer.len() >=
\* symbol_length`. The correlations, the pilot estimate and the average power
\* depend on the sample values; each is a choice among its outcomes. `n`
\* lists the symbols demodulated so far, each as the pilot phase expected
\* for it, which stands for the output.
RECURSIVE ofdm_demodulate_loop(_, _)
ofdm_demodulate_loop(self, n) ==
    LET sl == symbol_length(self.ofdm_config)
        len == Len(self.symbol_buffer)
        drain(s, k) == [ s EXCEPT !.symbol_buffer = SubSeq(@, k + 1, Len(@)) ]
        \* fine timing, extraction, channel estimate, signal quality
        symbol_from(s) ==
            LET span == Len(s.symbol_buffer) - sl + 1
                offs == IF s.ofdm_config.cp_length < span
                        THEN s.ofdm_config.cp_length ELSE span
            IN  UNION { UNION { UNION {
                    ofdm_demodulate_loop(
                        [ estimate_channel(drain(s, best_off + sl), h)
                            EXCEPT !.signal_quality.snr_db = snr ],
                        Append(n, [ pilot_phase |-> s.pilot_phase ]))
                    : snr \in { s.signal_quality.snr_db } \cup SnrValues }
                    : h \in EstimateValues }
                    : best_off \in 0..(offs - 1) }
    IN  IF len < sl THEN { [ out |-> n, state |-> self ] }
        ELSE IF ~self.is_sync
        THEN \* corr < 0.5: keep the last symbol_length - 1 samples, break
             { [ out |-> n,
                 state |-> IF len > sl THEN drain(self, len - (sl - 1)) ELSE self ] }
             \cup
             \* corr >= 0.5 at `start`: lock and go on
             UNION { symbol_from([ drain(self, start) EXCEPT !.is_sync = TRUE ])
                     : start \in 0..(len - sl) }
        ELSE symbol_from(self)

\* OfdmDemodulator::demodulate
OfdmDemodulator_demodulate(self, input) ==
    ofdm_demodulate_loop([ self EXCEPT !.symbol_buffer = @ \o input ], << >>)

\* OfdmDemodulator::reset
OfdmDemodulator_reset(self) ==
    [ self EXCEPT !.is_sync = FALSE,
                  !.signal_quality = SignalQuality_default,
                  !.channel_estimates =
                      SubSeq([ k \in 1..self.ofdm_config.fft_size |-> Complex(1, 0) ],
                             1, self.ofdm_config.fft_size),
                  !.pilot_phase = 0,
                  !.symbol_buffer = << >> ]

\* The configurations of the instances: BPSK as in ModSettings, FSK and OFDM
\* at 10 samples/s and 5 symbols/s.
BpskConfigs ==
    { ModulationConfig_new(8, r, f).value : r \in { 2, 4 }, f \in { 0, 2 } }
FskConfig == ModulationConfig_new(1000, 500, 250).value

\* The instance as Xxx::new returns it.
modem_new(kind, config) ==
    CASE kind = "BpskModulator" -> BpskModulator_new(config)
      [] kind = "BpskDemodulator" -> BpskDemodulator_new(config)
      [] kind = "FskModulator" -> FskModulator_new(config)
      [] kind = "FskDemodulator" -> FskDemodulator_new(config)
      [] kind = "OfdmModulator" -> OfdmModulator_new(config, OfdmSetting)
      [] kind = "OfdmDemodulator" -> OfdmDemodulator_new(config, OfdmSetting)

\* Modulator::modulate / Demodulator::demodulate on the instance.
modem_call(self, input) ==
    CASE self.kind = "BpskModulator" -> BpskModulator_modulate(self, input)
      [] self.kind = "BpskDemodulator" -> BpskDemodulator_demodulate(self, input)
      [] self.kind = "FskModulator" -> FskModulator_modulate(self, input)
      [] self.kind = "FskDemodulator" -> FskDemodulator_demodulate(self, input)
      [] self.kind = "OfdmModulator" -> OfdmModulator_modulate(self, input)
      [] self.kind = "OfdmDemodulator" -> OfdmDemodulator_demodulate(self, input)

\* Modulator::reset / Demodulator::reset on the instance.
modem_reset(self) ==
    CASE self.kind = "BpskModulator" -> BpskModulator_reset(self)
      [] self.kind = "BpskDemodulator" -> BpskDemodulator_reset(self)
      [] self.kind = "FskModulator" -> FskModulator_reset(self)
      [] self.kind = "FskDemodulator" -> FskDemodulator_reset(self)
      [] self.kind = "OfdmModulator" -> OfdmModulator_reset(self)
      [] self.kind = "OfdmDemodulator" -> OfdmDemodulator_reset(self)

Modulators == { "BpskModulator", "FskModulator", "OfdmModulator" }
Demodulators == { "BpskDemodulator", "FskDemodulator", "OfdmDemodulator" }

\* The bytes handed to modulate.
ModulateInputs == { << >>, << 126 >>, << 0, 255 >> }

\* The samples handed to demodulate: for BPSK the signal of a byte, for FSK
\* and OFDM blocks of samples of several lengths (for OFDM up to one whole
\* symbol).
DemodulateInputs(self) ==
    IF self.kind = "BpskDemodulator"
    THEN { << >>, modulate(self.config, 0, << 126 >>) }
    ELSE LET whole == IF self.kind = "OfdmDemodulator"
                      THEN symbol_length(self.ofdm_config) ELSE 10
         IN  { SubSeq([ k \in 1..n |-> IF self.kind = "FskDemodulator"
                                        THEN Complex(k % 2, 0) ELSE k % 2 ], 1, n) :
                 n \in { 0, 3, whole } }

\* modulator.modulate(&bytes, &mut output)
DoModemModulate(bytes) ==
    /\ modem.kind \in Modulators
    /\ Len(modemLog) < MaxCalls
    /\ \E r \in modem_call(modem, bytes) :
          /\ modem' = r.state
          /\ modemLog' = Append(modemLog, [ op |-> "modulate", input |-> bytes,
                                            out |-> r.out, state |-> r.state ])
    /\ UNCHANGED << frameVars, codecVars, chainVars, rxVars, coordVars >>

\* demodulator.demodulate(&samples, &mut output)
DoModemDemodulate ==
    /\ modem.kind \in Demodulators
    /\ Len(modemLog) < MaxCalls
    /\ \E input \in DemodulateInputs(modem) :
          \E r \in modem_call(modem, input) :
             /\ modem' = r.state
             /\ modemLog' = Append(modemLog, [ op |-> "demodulate", input |-> input,
                                               out |-> r.out, state |-> r.state ])
    /\ UNCHANGED << frameVars, codecVars, chainVars, rxVars, coordVars >>

\* reset()
DoModemReset ==
    /\ Len(modemLog) < MaxCalls
    /\ modem' = modem_reset(modem)
    /\ modemLog' = Append(modemLog, [ op |-> "reset", input |-> << >>,
                                      out |-> << >>, state |-> modem' ])
    /\ UNCHANGED << frameVars, codecVars, chainVars, rxVars, coordVars >>

\* One instance of one of the six types has been constructed.
InitReset ==
    /\ FrameIdle /\ codecs = << >> /\ CodecIdle /\ ChainIdle /\ RxIdle /\ CoordIdle
    /\ modemLog = << >>
    /\ \/ \E c \in BpskConfigs : modem = modem_new("BpskModulator", c)
       \/ \E c \in BpskConfigs : modem = modem_new("BpskDemodulator", c)
       \/ \E k \in { "FskModulator", "FskDemodulator", "OfdmModulator",
                     "OfdmDemodulator" } : modem = modem_new(k, FskConfig)

NextReset ==
    \/ \E bytes \in ModulateInputs : DoModemModulate(bytes)
    \/ DoModemDemodulate
    \/ DoModemReset

SpecReset == InitReset /\ [][NextReset]_vars

\* BPSK configurations whose sample rate is and is not a multiple of the
\* symbol rate: 8/2, 8/3, 8/4 and 12/5 samples per symbol.
BpskRateConfigs ==
    { ModulationConfig_new(r[1], r[2], f * (r[1] \div 4)).value :
        r \in { << 8, 2 >>, << 8, 3 >>, << 8, 4 >>, << 12, 5 >> }, f \in { 0, 1 } }

\* A BpskModulator has been constructed.
InitBpskModulator ==
    /\ FrameIdle /\ codecs = << >> /\ CodecIdle /\ ChainIdle /\ RxIdle /\ CoordIdle
    /\ modemLog = << >>
    /\ \E c \in BpskRateConfigs : modem = BpskModulator_new(c)

NextBpskModulator ==
    \/ \E bytes \in ModulateInputs : DoModemModulate(bytes)
    \/ DoModemReset

SpecBpskModulator == InitBpskModulator /\ [][NextBpskModulator]_vars

\* The OFDM configurations: the two built-in ones and the 8-bin one.
OfdmConfigs == { amateur_radio_64, robust_128, OfdmSetting }

\* An OfdmModulator of any of the configurations, or an OfdmDemodulator of
\* the 8-bin one, has been constructed.
InitOfdm ==
    /\ FrameIdle /\ codecs = << >> /\ CodecIdle /\ ChainIdle /\ RxIdle /\ CoordIdle
    /\ modemLog = << >>
    /\ \/ \E oc \in OfdmConfigs : modem = OfdmModulator_new(FskConfig, oc)
       \/ modem = OfdmDemodulator_new(FskConfig, OfdmSetting)

NextOfdm ==
    \/ \E bytes \in ModulateInputs : DoModemModulate(bytes)
    \/ DoModemDemodulate
    \/ DoModemReset

SpecOfdm == InitOfdm /\ [][NextOfdm]_vars

\* ------------------------------------------------------------------------
\* Properties
\* ------------------------------------------------------------------------

\* C1: a frame built by Frame::new from a payload of at most 65535 bytes and
\* serialized by to_bytes is parsed by Frame::from_bytes into a frame with the
\* same frame_type, sequence, payload_length, flags and checksum and the same
\* payload.
C1_FrameRoundTrip ==
    (frameOp = "new" /\ flipped = -1 /\ parseResult # None
     /\ Len(frame.payload) <= U16 - 1)
        => /\ parseResult.tag = "Ok"
           /\ parseResult.value.header.frame_type = frame.header.frame_type
           /\ parseResult.value.header.sequence = frame.header.sequence
           /\ parseResult.value.header.payload_length = frame.header.payload_length
           /\ parseResult.value.header.flags = frame.header.flags
           /\ parseResult.value.header.checksum = frame.header.checksum
           /\ parseResult.value.payload = frame.payload

\* A frame with the longest countable payload and a two-byte sequence number
\* has made the round trip.
C1_Witness ==
    /\ frameOp = "new" /\ flipped = -1 /\ parseResult # None
    /\ parseResult.tag = "Ok"
    /\ Len(frame.payload) = U16 - 1
    /\ frame.header.sequence = 256

\* C2: for a text made only of symbols of the built-in alphabet, decode on
\* the instance that encoded it returns that very text.
C2_HuffmanRoundTrip ==
    (decoder # 0 /\ decoder = encoder
     /\ \A k \in 1..Len(text) : text[k] \in Alphabet)
        => decoded = Ok(text)

\* C3: for a text with a character outside the encode table, decode on the
\* instance that encoded it returns that very text.
C3_EscapeRoundTrip ==
    (decoder # 0 /\ decoder = encoder
     /\ \E k \in 1..Len(text) : text[k] \notin DOMAIN codecs[encoder].encode_table)
        => decoded = Ok(text)

\* C4: any two codecs built by HuffmanCodec::new_english() hold the same
\* encode table, whatever the order the sentinels were inserted in.
C4_TablesIdentical ==
    Len(codecs) = 2 => codecs[1].encode_table = codecs[2].encode_table

\* C5: after a shift of 0 to 7 bits or a bit-order reversal of a stream that
\* begins with the preamble, extract_frame_data_any_alignment returns bytes
\* that begin with the byte that followed the preamble.
C5_SyncRecovery ==
    stage = "extracted"
        => /\ extracted.tag = "Some"
           /\ Len(extracted.value) > 0
           /\ extracted.value[1] = modInput[Len(SYNC) + 1]

\* C6: preamble and frame sent through BpskModulator::modulate and
\* BpskDemodulator::demodulate unchanged: the sync search finds the preamble
\* and returns the frame's bytes, and Frame::from_bytes on them succeeds with
\* the payload that was sent.
C6_BpskEndToEnd ==
    /\ stage \in { "extracted", "parsed" }
          => extracted = Some(SubSeq(modInput, Len(SYNC) + 1, Len(modInput)))
    /\ stage = "parsed"
          => /\ rxFrame.tag = "Ok"
             /\ rxFrame.value.payload = txPayload

\* A payload of the greatest length, with the frame marker 7E in it, has
\* come through the modem and been parsed.
C6_Witness ==
    /\ stage = "parsed" /\ txPath = "modem"
    /\ rxFrame.tag = "Ok"
    /\ Len(txPayload) = MaxPayloadLen
    /\ txPayload[1] = 126

\* C7: after one bit of the first six bytes of a serialized frame is
\* inverted, Frame::from_bytes returns InvalidFormat.
C7_HeaderBitFlipRejected ==
    (flipped # -1 /\ parseResult # None) => parseResult = InvalidFormat

\* A bit of the flags byte was inverted and the frame was rejected.
C7_Witness ==
    /\ flipped = 47
    /\ parseResult = InvalidFormat
    /\ frameOp = "build"

\* C8: every frame from Frame::new, FrameBuilder::build or Frame::from_bytes
\* has payload.len() = header.payload_length, a checksum that validates, and
\* a to_bytes() of 8 + header.payload_length bytes.
C8_FrameLengthInvariant ==
    /\ frameOp # "none"
          => /\ Len(frame.payload) = frame.header.payload_length
             /\ validate_checksum(frame.header)
             /\ Len(Frame_to_bytes(frame)) = SIZE + frame.header.payload_length
    /\ (parseResult # None /\ parseResult.tag = "Ok")
          => /\ Len(parseResult.value.payload) = parseResult.value.header.payload_length
             /\ validate_checksum(parseResult.value.header)
             /\ Len(Frame_to_bytes(parseResult.value))
                    = SIZE + parseResult.value.header.payload_length

\* C9: the bytes a transmitter hands to the modulator are the preamble, the
\* header of a frame of type 1, sequence 0, flags 0 whose payload_length is
\* the length of the encoded text, and the encoded text: 16 + payload_length
\* bytes.
C9_TxWireLayout ==
    stage = "modulated"
        => /\ modInput = SYNC
                         \o FrameHeader_to_bytes(
                                FrameHeader_new(1, 0, Len(txPayload), 0))
                         \o txPayload
           /\ Len(modInput) = 16 + Len(txPayload)

\* C10: under a valid modulation configuration receive returns
\* Ok(decoded_messages) after every demodulator of the list was tried, each
\* pass having either added a message or been skipped.
C10_ReceiveNeverErrors ==
    /\ rxLog = SubSeq(demodulators, 1, rxPos)
    /\ Len(decoded_messages) + rxSkipped = rxPos
    /\ (rxResult # None
        /\ ModulationConfig_new(rxConfig.value.sample_rate,
                                rxConfig.value.symbol_rate,
                                rxConfig.value.center_freq).tag = "Ok")
          => /\ rxResult = Ok(decoded_messages)
             /\ rxLog = demodulators

\* receive has returned after all six demodulators, some of them skipped and
\* some of them decoded.
C10_Witness ==
    /\ rxResult # None /\ rxResult.tag = "Ok"
    /\ Len(demodulators) = 6
    /\ rxSkipped >= 4
    /\ Len(decoded_messages) >= 2
    /\ decoded_messages[1][1] # "BPSK"

\* C11: extract_frame_data_any_alignment returns the bytes that follow the
\* match of one of the four patterns that begins at the earliest bit of the
\* stream, over all 8 shifts and both bit orders, an MSB-first match before
\* an LSB-first one at the same bit; and None if there is no match at all.
C11_EarliestMatch ==
    stage = "extracted" =>
        LET aligned(msb, shift) ==
                [ k \in 1..((8 * Len(rxBytes) - shift) \div 8) |->
                    repack(SubSeq(to_bits(rxBytes, msb), shift + 8 * (k - 1) + 1,
                                  shift + 8 * k), msb, 0) ]
            patterns == { SYNC, SYNC_INV, << 126, 126 >>, << 129, 129 >> }
            matches ==
                { m \in [ msb : BOOLEAN, shift : 0..7, pos : 0..Len(rxBytes),
                          pattern : patterns ] :
                    /\ m.pos + Len(m.pattern) <= Len(aligned(m.msb, m.shift))
                    /\ SubSeq(aligned(m.msb, m.shift), m.pos + 1,
                              m.pos + Len(m.pattern)) = m.pattern }
            bit_of(m) == m.shift + 8 * m.pos
            before(m, n) ==
                \/ bit_of(m) < bit_of(n)
                \/ bit_of(m) = bit_of(n) /\ m.msb /\ ~n.msb
            earliest == CHOOSE m \in matches : \A n \in matches \ { m } : before(m, n)
        IN  IF matches = {}
            THEN extracted = None
            ELSE extracted = Some(SubSeq(aligned(earliest.msb, earliest.shift),
                                         earliest.pos + Len(earliest.pattern) + 1,
                                         Len(aligned(earliest.msb, earliest.shift))))

\* C12: receive emits at most one message per demodulator, one exactly for
\* each demodulator whose output led to a parsed frame, made of the
\* demodulator's name and the decoded payload, and the messages stand in the
\* order of the demodulators, which under auto-detect is BPSK, FSK, OFDM,
\* QPSK, 16QAM, AFSK.
C12_EmissionOrder ==
    /\ (rxConfig # None /\ rxConfig.value.auto_detect /\ demodulators # << >>)
          => demodulators = << "BPSK", "FSK", "OFDM", "QPSK", "16QAM", "AFSK" >>
    /\ Len(rxPasses) <= Len(demodulators)
    /\ \A i \in 1..Len(rxPasses) :
          /\ rxPasses[i].name = demodulators[i]
          /\ Len(rxPasses[i].pushed) <= 1
          /\ Len(rxPasses[i].pushed) = 1
                <=> \E c \in 1..Len(rxPasses[i].calls) : rxPasses[i].calls[c].ok
          /\ \A c \in 1..Len(rxPasses[i].calls) :
                rxPasses[i].calls[c].ok =>
                    /\ rxPasses[i].pushed[1][1] = rxPasses[i].name
                    /\ \E order \in 1..NumHashOrders :
                          Ok(rxPasses[i].pushed[1][2])
                              = decode_payload(
                                    rxConfig.value.text_codec, order,
                                    Frame_from_bytes(rxPasses[i].calls[c].arg)
                                        .value.payload)
    /\ LET emitted[i \in 0..Len(rxPasses)] ==
               IF i = 0 THEN << >> ELSE emitted[i - 1] \o rxPasses[i].pushed
       IN  decoded_messages = emitted[Len(rxPasses)]

\* receive has returned three messages under auto-detect, those of FSK, QPSK
\* and AFSK, the other three demodulators having been skipped.
C12_Witness ==
    /\ rxResult # None /\ rxResult.tag = "Ok"
    /\ rxConfig.value.auto_detect
    /\ Len(decoded_messages) = 3
    /\ decoded_messages[1][1] = "FSK"
    /\ decoded_messages[2][1] = "QPSK"
    /\ decoded_messages[3][1] = "AFSK"

\* C13: in each pass Frame::from_bytes is applied first to the post-sync
\* slice; only if that fails it is applied, once, to the bitwise-inverted
\* slice; after a direct parse that succeeds the inverted slice is not
\* parsed, and when both fail the pass adds no message.
C13_PolarityRetry ==
    \A i \in 1..Len(rxPasses) :
        LET pass == rxPasses[i]
        IN  /\ pass.frame_bytes = None => pass.calls = << >>
            /\ pass.frame_bytes # None =>
                  /\ Len(pass.calls) \in { 1, 2 }
                  /\ pass.calls[1].arg = pass.frame_bytes.value
                  /\ Len(pass.calls) = 2 <=> ~pass.calls[1].ok
                  /\ Len(pass.calls) = 2 =>
                        pass.calls[2].arg
                            = [ k \in 1..Len(pass.frame_bytes.value) |->
                                  Not8(pass.frame_bytes.value[k]) ]
            /\ (\A c \in 1..Len(pass.calls) : ~pass.calls[c].ok)
                  => pass.pushed = << >>

\* One pass parsed the slice directly, one parsed it only after inversion,
\* and one failed both ways.
C13_Witness ==
    /\ \E i \in 1..Len(rxPasses) :
          Len(rxPasses[i].calls) = 1 /\ rxPasses[i].calls[1].ok
    /\ \E i \in 1..Len(rxPasses) :
          /\ Len(rxPasses[i].calls) = 2
          /\ ~rxPasses[i].calls[1].ok /\ rxPasses[i].calls[2].ok
          /\ Len(rxPasses[i].pushed) = 1
    /\ \E i \in 1..Len(rxPasses) :
          /\ Len(rxPasses[i].calls) = 2
          /\ ~rxPasses[i].calls[1].ok /\ ~rxPasses[i].calls[2].ok
          /\ rxPasses[i].pushed = << >>

\* C14: decode_payload tries the Huffman decoder first if the Huffman codec
\* is hinted and UTF-8 first otherwise, then the other of the two, and gives
\* "HEX:" and the hexadecimal digits when neither succeeds.
C14_DecodeOrder ==
    \A i \in 1..Len(rxPasses) : \A c \in 1..Len(rxPasses[i].calls) :
        rxPasses[i].calls[c].ok =>
            LET data == Frame_from_bytes(rxPasses[i].calls[c].arg).value.payload
                utf8 == from_utf8(data)
                hex == << 72, 69, 88, 58 >> \o hex_string(data, 1)
                huffman_first(h) ==
                    IF h.tag = "Ok" THEN h.value
                    ELSE IF utf8.tag = "Some" THEN utf8.value ELSE hex
                utf8_first(h) ==
                    IF utf8.tag = "Some" THEN utf8.value
                    ELSE IF h.tag = "Ok" THEN h.value ELSE hex
            IN  /\ Len(rxPasses[i].pushed) = 1
                /\ \E order \in 1..NumHashOrders :
                      rxPasses[i].pushed[1][2]
                          = IF rxConfig.value.text_codec = Some("Huffman")
                            THEN huffman_first(decode(EnglishCodecs[order], data))
                            ELSE utf8_first(decode(EnglishCodecs[order], data))

\* C15: Frame::from_bytes on an input with a valid header returns
\* SizeMismatch when fewer than payload_length bytes follow the header, and
\* otherwise the frame made of the first 8 + payload_length bytes, whatever
\* follows them; on an input of fewer than 8 bytes it returns InvalidFormat.
C15_FromBytesSize ==
    parseResult # None =>
        LET expected_total_size == SIZE + frame.header.payload_length
        IN  /\ Len(wire) < SIZE => parseResult = InvalidFormat
            /\ (SIZE <= Len(wire) /\ Len(wire) < expected_total_size)
                  => parseResult = SizeMismatch(expected_total_size, Len(wire))
            /\ expected_total_size <= Len(wire)
                  => /\ parseResult.tag = "Ok"
                     /\ parseResult.value.header = frame.header
                     /\ parseResult.value.payload
                            = SubSeq(wire, SIZE + 1, expected_total_size)
                     /\ parseResult
                            = Frame_from_bytes(SubSeq(wire, 1, expected_total_size))

\* A frame with a payload followed by trailing bytes has been parsed.
C15_Witness ==
    /\ parseResult # None /\ parseResult.tag = "Ok"
    /\ frame.header.payload_length = MaxPayloadLen
    /\ Len(wire) = SIZE + 2 * MaxPayloadLen
    /\ wire[Len(wire)] = 255

\* C16: encode emits a token's sentinel code only where the token is
\* delimited on both sides by a string edge or a byte that is not ASCII
\* alphanumeric; a text with no delimited token is encoded character by
\* character, and the sample text decodes to itself on the same instance.
C16_TokenBoundary ==
    encoder # 0 =>
        LET bytes == as_bytes(text)
            table == codecs[encoder].encode_table
            delimited(i, tok) ==
                /\ i + Len(tok) <= Len(bytes)
                /\ \A k \in 1..Len(tok) :
                      to_ascii_lowercase(bytes[i + k]) = to_ascii_lowercase(tok[k])
                /\ (i = 0 \/ bytes[i] \notin (48..57) \cup (65..90) \cup (97..122))
                /\ (i + Len(tok) = Len(bytes)
                    \/ bytes[i + Len(tok) + 1]
                          \notin (48..57) \cup (65..90) \cup (97..122))
            has_token == \E i \in 0..(Len(bytes) - 1), k \in 1..Len(tokens) :
                             delimited(i, tokens[k])
            by_char[n \in 0..Len(text)] ==
                IF n = 0 THEN << >> ELSE by_char[n - 1] \o table[text[n]]
            payload == by_char[Len(text)]
            full == [ k \in 1..16 |-> Bit(Len(payload), 16 - k) ] \o payload
            padded == full \o [ k \in 1..((8 - (Len(full) % 8)) % 8) |-> 0 ]
        IN  /\ has_token <=> encoded # pack_bits(padded)
            /\ (text = SampleText /\ decoder = encoder) => decoded = Ok(text)

C16_Witness ==
    /\ text = SampleText
    /\ decoder = encoder
    /\ decoded = Ok(SampleText)

\* C17: the decoder reads the 16-bit header and decodes exactly that many of
\* the following bits, so whatever stands in the padding positions or after
\* them, the decoded result is that of the container as encode produced it,
\* and "HELLO" decodes to itself on the encoding instance.
C17_PaddingIgnored ==
    decoder # 0 =>
        /\ decoded = decode(codecs[decoder], encode(codecs[encoder], text))
        /\ (decoder = encoder /\ text = << 72, 69, 76, 76, 79 >>)
              => decoded = Ok(text)

C17_Witness ==
    /\ decoder # 0 /\ decoder = encoder
    /\ text = << 72, 69, 76, 76, 79 >>
    /\ encoded # encode(codecs[encoder], text)
    /\ Len(encoded) = Len(encode(codecs[encoder], text))
    /\ decoded = Ok(text)

C19_ResetRestores ==
    \A i \in 1..Len(modemLog) :
        modemLog[i].op = "reset" =>
            LET fresh == modem_new(modem.kind, modem.config)
            IN  /\ modemLog[i].state = fresh
                /\ (i < Len(modemLog) /\ modemLog[i + 1].op # "reset") =>
                      [ out |-> modemLog[i + 1].out, state |-> modemLog[i + 1].state ]
                          \in modem_call(fresh, modemLog[i + 1].input)

C19_Witness ==
    /\ Len(modemLog) = 3
    /\ modemLog[1].op # "reset"
    /\ modemLog[1].state # modem_new(modem.kind, modem.config)
    /\ modemLog[2].op = "reset"
    /\ modemLog[2].state = modem_new(modem.kind, modem.config)
    /\ modemLog[3].op # "reset"
    /\ modemLog[3].state = modemLog[1].state
    /\ modem.kind = "OfdmDemodulator"

\* C20 as stated: the BPSK modulator emits, for every bit, the number of
\* samples given by sample_rate / symbol_rate rounded to the nearest integer,
\* so the output holds 8 * |bytes| times that many samples.
C20_NearestCount ==
    \A i \in 1..Len(modemLog) :
        modemLog[i].op = "modulate" =>
            Len(modemLog[i].out)
                = 8 * Len(modemLog[i].input)
                  * ((2 * modem.config.sample_rate + modem.config.symbol_rate)
                     \div (2 * modem.config.symbol_rate))

\* C20 amended: the per-bit count is sample_rate / symbol_rate truncated to
\* an integer. The output holds 8 * |bytes| * count samples; the samples of
\* bit k (bits MSB-first within each byte) are the k-th block of count
\* samples, each the symbol -1 (bit 0) or +1 (bit 1) on the carrier at the
\* running sample count.
C20_SampleCountAndOrder ==
    \A i \in 1..Len(modemLog) :
        modemLog[i].op = "modulate" =>
            LET config == modem.config
                bytes == modemLog[i].input
                out == modemLog[i].out
                count == CHOOSE k \in 0..config.sample_rate :
                             /\ k * config.symbol_rate <= config.sample_rate
                             /\ (k + 1) * config.symbol_rate > config.sample_rate
                before == IF i = 1 THEN 0 ELSE modemLog[i - 1].state.sample_counter
                turn(n) == (((4 * config.carrier_frequency) \div config.sample_rate)
                            * (before + n - 1)) % 4
            IN  /\ Len(out) = 8 * Len(bytes) * count
                /\ \A b \in 1..Len(bytes), k \in 0..7, j \in 1..count :
                      LET n == ((b - 1) * 8 + k) * count + j
                          symbol == IF (bytes[b] \div 2 ^ (7 - k)) % 2 = 0 THEN -1 ELSE 1
                      IN  out[n] = [ real |-> symbol * << 1, 0, -1, 0 >>[turn(n) + 1],
                                     imag |-> symbol * << 0, 1, 0, -1 >>[turn(n) + 1] ]

C20_Witness ==
    /\ Len(modemLog) = 2
    /\ modem.config.sample_rate = 8 /\ modem.config.symbol_rate = 3
    /\ modem.config.carrier_frequency = 2
    /\ modemLog[1].op = "modulate" /\ modemLog[1].input = << 126 >>
    /\ modemLog[2].op = "modulate" /\ modemLog[2].input = << 0, 255 >>
    /\ Len(modemLog[2].out) = 32

\* C21: BpskDemodulator::is_synchronized() is false after construction and
\* after reset(), and after a demodulate call it is true exactly when the
\* call wrote at least one byte to the output.
C21_SyncMeansOutput ==
    modem.kind = "BpskDemodulator" =>
        /\ modemLog = << >> => ~modem.is_sync
        /\ \A i \in 1..Len(modemLog) :
              /\ modemLog[i].op = "reset" => ~modemLog[i].state.is_sync
              /\ modemLog[i].op = "demodulate" =>
                    (modemLog[i].state.is_sync <=> Len(modemLog[i].out) >= 1)

\* C22: for amateur_radio_64 and robust_128, fft_size is a power of 2,
\* cp_length < fft_size, and data_carriers, pilot_carriers and null_carriers
\* are pairwise disjoint and together cover every bin 0..fft_size-1.
C22_CarrierSets ==
    modem.ofdm_config \in { amateur_radio_64, robust_128 } =>
        LET c == modem.ofdm_config
            Range(q) == { q[k] : k \in 1..Len(q) }
            data == Range(c.data_carriers)
            pilot == Range(c.pilot_carriers)
            null == Range(c.null_carriers)
        IN  /\ \E e \in 0..10 : c.fft_size = 2 ^ e
            /\ c.cp_length < c.fft_size
            /\ data \cap pilot = {} /\ data \cap null = {} /\ pilot \cap null = {}
            /\ data \cup pilot \cup null = 0..(c.fft_size - 1)

\* ---------------------------------------------------------------------
\* The TX coordinator: SimpleTransmitter::transmit.
\* ---------------------------------------------------------------------

\* generate_pink_noise(duration = 0.5): `(sample_rate * duration) as usize`
\* samples Complex::new(white, 0.0); white[k] is the k-th draw of the
\* generator.
generate_pink_noise(config, white) ==
    [ k \in 1..(config.sample_rate \div 2) |-> Complex(white[k], 0) ]

\* generate_cw_preamble: the audio of the CW generator, each sample s as
\* Complex::new(s, 0.0).
generate_cw_preamble(audio_samples) ==
    [ k \in 1..Len(audio_samples) |-> Complex(audio_samples[k], 0) ]

\* transmit, `if self.config.power != 1.0`: every sample times the power.
apply_power(all_samples, power) ==
    IF power # 1 THEN [ k \in 1..Len(all_samples) |->
                          Complex(all_samples[k].real * power,
                                  all_samples[k].imag * power) ]
    ELSE all_samples

\* SimpleTransmitter::transmit.  white are the draws of the noise
\* generator, cw_audio the audio of the CW generator and voice the result
\* of loading the voice file; a voice file that fails to load is skipped,
\* an error of the data transmission ends the call.
SimpleTransmitter_transmit(config, order, white, cw_audio, voice) ==
    Let(IF config.pink_noise THEN generate_pink_noise(config, white) ELSE << >>,
        LAMBDA pink_samples :
    Let(IF config.cw_preamble THEN generate_cw_preamble(cw_audio) ELSE << >>,
        LAMBDA cw_samples :
    Let(IF config.voice_id.tag = "Some" /\ voice.tag = "Ok" THEN voice.value ELSE << >>,
        LAMBDA vs :
    Let(generate_data_transmission(config, order), LAMBDA data :
        IF data.tag # "Ok" THEN data
        ELSE Ok([ pink |-> pink_samples, cw |-> cw_samples, voice |-> vs,
                  data |-> data.value.samples,
                  all_samples |->
                      apply_power(pink_samples \o cw_samples \o vs
                                    \o data.value.samples, config.power),
                  total |-> Len(pink_samples) + Len(cw_samples) + Len(vs)
                              + Len(data.value.samples) ])))))

\* Transmit configurations: 20 samples per second, so that the burst has 10
\* samples and a tenth of a second is 2 samples; one symbol rate the
\* modulation configuration rejects.
CoordConfigs ==
    { [ sample_rate |-> 20, symbol_rate |-> r, center_freq |-> f,
        text_codec |-> c, text |-> t, pink_noise |-> p, cw_preamble |-> w,
        voice_id |-> v, power |-> g ] :
        r \in { 5, 20 }, f \in { 0, 5 }, c \in { "Huffman", "Ascii" },
        t \in { << >>, << 67 >>, << 67, 81 >> }, p \in BOOLEAN, w \in BOOLEAN,
        v \in { None, Some("id.wav") }, g \in { 0, 1 } }

\* Draws of the noise generator, in (-0.1, 0.1), as multiples of 0.05.
WhiteDraws == { [ k \in 1..10 |-> 1 ], [ k \in 1..10 |-> IF k % 2 = 0 THEN -1 ELSE 0 ] }

\* Audio of the CW generator: silent at the first sample of a tone's rise.
CwAudio == { << 0, 1, 0 >>, << 0, 1, -1, 0, 0 >> }

\* Results of loading the voice file.
VoiceResults == { Ok(<< Complex(1, 0), Complex(-1, 0) >>), [ tag |-> "Io" ] }

DoSimpleTransmit(config, order, white, cw_audio, voice) ==
    /\ txCall = None
    /\ txCall' = Some([ config |-> config,
                        result |-> SimpleTransmitter_transmit(config, order, white,
                                                              cw_audio, voice) ])
    /\ UNCHANGED << frameVars, codecVars, chainVars, rxVars, modemVars >>

InitCoord == InitChain

NextCoord ==
    \E config \in CoordConfigs, order \in 1..NumHashOrders, white \in WhiteDraws,
       cw_audio \in CwAudio, voice \in VoiceResults :
        DoSimpleTransmit(config, order, white, cw_audio, voice)

SpecCoord == InitCoord /\ [][NextCoord]_vars

\* C23: the output of the TX coordinator is the concatenation of the enabled
\* segments pink-noise burst, CW preamble, voice-ID samples and data
\* transmission, a disabled segment contributes nothing and the reported
\* total is the sum of the segment lengths; with pink noise enabled the
\* output begins with a burst of floor(0.5 * sample_rate) samples followed
\* by floor(0.1 * sample_rate) zero samples before the first sample of the
\* CW, voice or data segment.
C23_TxComposition ==
    (txCall # None /\ txCall.value.result.tag = "Ok") =>
        LET config == txCall.value.config
            r == txCall.value.result.value
            burst == config.sample_rate \div 2
            silence == config.sample_rate \div 10
        IN  /\ r.total = Len(r.all_samples)
            /\ (~config.pink_noise => r.pink = << >>)
            /\ (~config.cw_preamble => r.cw = << >>)
            /\ (config.voice_id = None => r.voice = << >>)
            /\ config.pink_noise =>
                 /\ Len(r.pink) = burst
                 /\ SubSeq(r.all_samples, 1, burst) = apply_power(r.pink, config.power)
                 /\ Len(r.all_samples) >= burst + silence + Len(r.cw) + Len(r.voice)
                                            + Len(r.data)
                 /\ \A k \in 1..silence : r.all_samples[burst + k] = Complex(0, 0)
                 /\ SubSeq(r.all_samples, burst + silence + 1, Len(r.all_samples))
                      = apply_power(r.cw \o r.voice \o r.data, config.power)

\* ---------------------------------------------------------------------
\* The choice of the symbol-phase offset in the demodulators.
\* ---------------------------------------------------------------------

\* n carrier samples of the symbol s (0 is silence) from sample number
\* `counter` on.
carrier_run(config, counter, n, s) ==
    [ k \in 1..n |-> generate_carrier(config, counter + k - 1, s) ]

\* A received BPSK signal: a samples of the symbol s, the modulated bytes,
\* and, when b >= 0, b samples of silence and the modulated bytes again.
bpsk_signal(config, a, s, bytes, b) ==
    carrier_run(config, 0, a, s) \o modulate(config, a, bytes)
      \o (IF b < 0 THEN << >>
          ELSE carrier_run(config, 0, b, 0)
                 \o modulate(config, a + 8 * Len(bytes) * samples_per_symbol(config) + b,
                             bytes))

SelectConfigs ==
    { ModulationConfig_new(8, 4, 0).value, ModulationConfig_new(8, 4, 2).value,
      ModulationConfig_new(8, 2, 2).value }

\* Signals with the sync once or twice at several alignments, and signals
\* without a sync.
SelectInputs(config) ==
    { bpsk_signal(config, a, s, SYNC, b) :
        a \in { 0, 1, 17 }, s \in { 0, 1 }, b \in { -1, 0, 15 } }
    \cup { bpsk_signal(config, a, s, bytes, -1) :
             a \in { 0, 1, 3 }, s \in { 0, 1, -1 },
             bytes \in { << >>, << 126 >>, << 85, 0 >>, << 255, 126, 126 >> } }

\* demodulator.demodulate(&samples, &mut output) on a new instance.
DoDemodulateSamples(input) ==
    /\ modem.kind \in Demodulators
    /\ modemLog = << >>
    /\ \E r \in modem_call(modem, input) :
          /\ modem' = r.state
          /\ modemLog' = << [ op |-> "demodulate", input |-> input,
                              out |-> r.out, state |-> r.state ] >>
    /\ UNCHANGED << frameVars, codecVars, chainVars, rxVars, coordVars >>

InitSelect ==
    /\ FrameIdle /\ codecs = << >> /\ CodecIdle /\ ChainIdle /\ RxIdle /\ CoordIdle
    /\ modemLog = << >>
    /\ \E c \in SelectConfigs : modem = modem_new("BpskDemodulator", c)

NextSelect == \E input \in SelectInputs(modem.config) : DoDemodulateSamples(input)

SpecSelect == InitSelect /\ [][NextSelect]_vars

\* The candidates of the offsets 0..samples_per_symbol-1 for the samples of a
\* call.
candidates_of(config, input) ==
    LET sps == samples_per_symbol(config)
        bb_real == [ i \in 1..Len(input) |->
                       input[i].real * cos_phase(config, i - 1)
                       + input[i].imag * sin_phase(config, i - 1) ]
    IN  [ o \in 0..(sps - 1) |-> demod_candidate(bb_real, sps, o) ]

\* The byte positions of `pattern` in `stream` at or after its leading run
\* of 0x00 and 0xFF bytes.
sync_positions(stream, pattern) ==
    { pos \in 0..(Len(stream) - Len(pattern)) :
        /\ SubSeq(stream, pos + 1, pos + Len(pattern)) = pattern
        /\ \E m \in 1..(pos + 1) : stream[m] \notin { 0, 255 } }

\* C24: BpskDemodulator::demodulate outputs the whole candidate stream of
\* the offset whose sync 55 55 55 55 AA AA 7E 7E is at the smallest byte
\* position, the lowest offset among equal positions; when no offset has the
\* sync it outputs the candidate with the largest sum of |integrated value|,
\* the lowest offset among equal sums.
C24_BpskOffsetSelection ==
    \A i \in 1..Len(modemLog) :
        (modemLog[i].op = "demodulate" /\ modemLog[i].state.kind = "BpskDemodulator") =>
            Let(candidates_of(modemLog[i].state.config, modemLog[i].input),
                LAMBDA cands :
                LET offsets == DOMAIN cands
                    positions(o) == sync_positions(cands[o].stream, SYNC)
                    synced == { o \in offsets : positions(o) # {} }
                    first(o) == CHOOSE p \in positions(o) : \A q \in positions(o) : p <= q
                IN  IF synced # {}
                    THEN \E o \in synced :
                           /\ modemLog[i].out = cands[o].stream
                           /\ \A u \in synced : first(o) <= first(u)
                           /\ \A u \in synced : u < o => first(o) < first(u)
                    ELSE \E o \in offsets :
                           /\ modemLog[i].out = cands[o].stream
                           /\ \A u \in offsets : cands[u].strength <= cands[o].strength
                           /\ \A u \in offsets : u < o => cands[u].strength < cands[o].strength)

\* A call in which two offsets hold the sync at different positions and the
\* higher offset, with the smaller position, is the one put out.
C24_Witness ==
    \E i \in 1..Len(modemLog) :
        /\ modemLog[i].op = "demodulate" /\ modemLog[i].state.kind = "BpskDemodulator"
        /\ Let(candidates_of(modemLog[i].state.config, modemLog[i].input),
               LAMBDA cands :
               \E o, u \in DOMAIN cands :
                  /\ u < o
                  /\ sync_positions(cands[o].stream, SYNC) # {}
                  /\ sync_positions(cands[u].stream, SYNC) # {}
                  /\ \A p \in sync_positions(cands[o].stream, SYNC) :
                        \A q \in sync_positions(cands[u].stream, SYNC) : p < q
                  /\ modemLog[i].out = cands[o].stream
                  /\ modemLog[i].out # cands[u].stream)

\* A received FSK signal: a silent samples and the samples a new
\* FskModulator makes of the bytes.
fsk_signal(config, a, bytes) ==
    [ k \in 1..a |-> Complex(0, 0) ]
      \o Let(CHOOSE r \in FskModulator_modulate(FskModulator_new(config), bytes) : TRUE,
             LAMBDA r : [ k \in 1..Len(r.out) |-> fsk_wave(config, r.out[k]) ])

FskSelectInputs ==
    { fsk_signal(FskConfig, a, bytes) :
        a \in { 0, 1 }, bytes \in { << >>, SYNC, SYNC_INV } }
    \cup { fsk_signal(FskConfig, 15, SYNC) }

\* demodulator.demodulate(&samples, &mut output), again and again on one
\* instance.
DoDemodulateMore(input) ==
    /\ modem.kind \in Demodulators
    /\ Len(modemLog) < MaxCalls
    /\ \E r \in modem_call(modem, input) :
          /\ modem' = r.state
          /\ modemLog' = Append(modemLog, [ op |-> "demodulate", input |-> input,
                                            out |-> r.out, state |-> r.state ])
    /\ UNCHANGED << frameVars, codecVars, chainVars, rxVars, coordVars >>

InitFskSelect ==
    /\ FrameIdle /\ codecs = << >> /\ CodecIdle /\ ChainIdle /\ RxIdle /\ CoordIdle
    /\ modemLog = << >>
    /\ modem = modem_new("FskDemodulator", FskConfig)

NextFskSelect == \E input \in FskSelectInputs : DoDemodulateMore(input)

SpecFskSelect == InitFskSelect /\ [][NextFskSelect]_vars

\* The candidates of the offsets 0..samples_per_symbol-1 for the buffer of
\* the demodulator.
fsk_candidates_of(self) ==
    LET sps == samples_per_symbol(self.config)
    IN  [ o \in 0..(sps - 1) |-> fsk_candidate(self, self.buffer, sps, o) ]

\* The byte positions at which the sync or its bitwise inverse lies.
fsk_sync_positions(stream) ==
    { pos \in 0..(Len(stream) - 8) :
        SubSeq(stream, pos + 1, pos + 8) \in { SYNC, SYNC_INV } }

\* C25: FskDemodulator::demodulate outputs the candidate stream of the
\* offset at which the sync or its bitwise inverse AA AA AA AA 55 55 81 81
\* lies at the smallest byte position; when no candidate holds either
\* pattern it outputs a candidate of maximal length; it outputs nothing
\* when fewer samples than one symbol are buffered.
C25_FskOffsetSelection ==
    \A i \in 1..Len(modemLog) :
        (modemLog[i].op = "demodulate" /\ modemLog[i].state.kind = "FskDemodulator") =>
            IF Len(modemLog[i].state.buffer) < samples_per_symbol(modemLog[i].state.config)
            THEN modemLog[i].out = << >>
            ELSE Let(fsk_candidates_of(modemLog[i].state), LAMBDA cands :
                     LET offsets == DOMAIN cands
                         positions(o) == fsk_sync_positions(cands[o].stream)
                         synced == { o \in offsets : positions(o) # {} }
                     IN  IF synced # {}
                         THEN \E o \in synced : \E p \in positions(o) :
                                /\ modemLog[i].out = cands[o].stream
                                /\ \A u \in synced : \A q \in positions(u) : p <= q
                         ELSE \E o \in offsets :
                                /\ modemLog[i].out = cands[o].stream
                                /\ \A u \in offsets :
                                      Len(cands[u].stream) <= Len(cands[o].stream))

\* A call after which offset 0 holds a sync pattern at a later byte than
\* offset 1, whose stream, starting with the inverse sync, is put out.
C25_Witness ==
    \E i \in 1..Len(modemLog) :
        /\ modemLog[i].op = "demodulate" /\ modemLog[i].state.kind = "FskDemodulator"
        /\ Let(fsk_candidates_of(modemLog[i].state), LAMBDA cands :
               /\ fsk_sync_positions(cands[0].stream) # {}
               /\ 0 \notin fsk_sync_positions(cands[0].stream)
               /\ SubSeq(cands[1].stream, 1, 8) = SYNC_INV
               /\ modemLog[i].out = cands[1].stream
               /\ modemLog[i].out # cands[0].stream)

\* The instance before the i-th logged call.
modem_before(i) ==
    IF i > 1 THEN modemLog[i - 1].state
    ELSE IF modemLog[1].state.kind = "OfdmDemodulator"
    THEN OfdmDemodulator_new(modemLog[1].state.config, modemLog[1].state.ofdm_config)
    ELSE IF modemLog[1].state.kind = "OfdmModulator"
    THEN OfdmModulator_new(modemLog[1].state.config, modemLog[1].state.ofdm_config)
    ELSE modem_new(modemLog[1].state.kind, modemLog[1].state.config)

\* C26: a call of OfdmDemodulator::demodulate that leaves is_sync false
\* outputs nothing; is_sync is set only by a correlation >= 0.5, so a call
\* that had a whole symbol to search and leaves is_sync false found less than
\* 0.5 and ends with at most symbol_length-1 samples in the buffer; once
\* is_sync is true it stays true until reset().
C26_SyncLock ==
    \A i \in 1..Len(modemLog) :
        (modemLog[i].op = "demodulate" /\ modemLog[i].state.kind = "OfdmDemodulator") =>
            LET before == modem_before(i)
                after == modemLog[i].state
                sl == symbol_length(after.ofdm_config)
            IN  /\ ~after.is_sync => modemLog[i].out = << >>
                /\ before.is_sync => after.is_sync
                /\ (/\ ~before.is_sync /\ ~after.is_sync
                    /\ Len(before.symbol_buffer) + Len(modemLog[i].input) >= sl)
                   => Len(after.symbol_buffer) <= sl - 1

\* ---------------------------------------------------------------------
\* The pilot phase over a stream of OFDM symbols.
\* ---------------------------------------------------------------------

MaxSymbols == 9

\* The symbols of the calls made since construction or reset().
symbols_done == IF modemLog = << >> THEN << >> ELSE modemLog[1].out

\* modulate or demodulate on the instance; the log keeps one entry with all
\* the symbols of the calls made since construction or reset().
DoPilotCall(input) ==
    /\ modem.kind \in { "OfdmModulator", "OfdmDemodulator" }
    /\ Len(symbols_done) < MaxSymbols
    /\ \E r \in modem_call(modem, input) :
          /\ modem' = r.state
          /\ modemLog' = << [ op |-> "stream", input |-> input,
                              out |-> symbols_done \o r.out,
                              state |-> r.state ] >>
    /\ UNCHANGED << frameVars, codecVars, chainVars, rxVars, coordVars >>

\* reset(): the stream starts again.
DoPilotReset ==
    /\ modemLog # << >>
    /\ modem' = modem_reset(modem)
    /\ modemLog' = << >>
    /\ UNCHANGED << frameVars, codecVars, chainVars, rxVars, coordVars >>

InitPilot ==
    /\ FrameIdle /\ codecs = << >> /\ CodecIdle /\ ChainIdle /\ RxIdle /\ CoordIdle
    /\ modemLog = << >>
    /\ \E k \in { "OfdmModulator", "OfdmDemodulator" } : modem = modem_new(k, FskConfig)

NextPilot ==
    \/ \E input \in (IF modem.kind = "OfdmModulator" THEN ModulateInputs
                     ELSE DemodulateInputs(modem)) : DoPilotCall(input)
    \/ DoPilotReset

SpecPilot == InitPilot /\ [][NextPilot]_vars

\* C27: the pilot phase of the modulator and of the demodulator starts at 0
\* and advances by PI/4, wrapping modulo 2 PI, once per OFDM symbol after
\* the symbol is emitted resp. processed: on either side the k-th symbol
\* since construction or reset() has the phase (k-1) * PI/4 modulo 2 PI, so
\* the two sides agree for every k, and the phase of the instance is that of
\* the next symbol, unchanged by a call without a symbol.
C27_PilotPhase ==
    /\ \A k \in 1..Len(symbols_done) : symbols_done[k].pilot_phase = (k - 1) % 8
    /\ modem.pilot_phase = Len(symbols_done) % 8

\* An OfdmDemodulator that has processed at least eight symbols, its phase
\* having wrapped, after a call that processed no symbol.
C27_Witness ==
    /\ modem.kind = "OfdmDemodulator"
    /\ Len(symbols_done) >= 8
    /\ modem.pilot_phase = Len(symbols_done) % 8
    /\ Len(modemLog[1].input) < 10

\* ---------------------------------------------------------------------
\* The bit-length header of long texts.
\* ---------------------------------------------------------------------

\* The length of a text of U+10000, which encode escapes with 54 bits each:
\* 1214 * 54 = 65556 payload bits.
LongTextLen == 1214

LongText == [ k \in 1..LongTextLen |-> 65536 ]

\* encode: `bits` when the header is prepended.
payload_bits(codec, t) ==
    while_loop(encode_done, encode_step,
               [ encode_table |-> codec.encode_table,
                 bytes |-> as_bytes(t), i |-> 0, bits |-> << >> ]).bits

NextHeader ==
    \/ \E c \in 1..2, t \in Texts : DoEncode(c, t)
    \/ DoEncode(1, LongText)

SpecHeader == InitCodec /\ [][NextHeader]_vars

\* C28: the 16-bit value in the first two bytes of encode's output is the
\* number of payload bits that follow it, also for long texts (it is not
\* reduced modulo 2^16), and the output has ceil((16 + payload bits) / 8)
\* bytes.
C28_HeaderExact ==
    encoder # 0 =>
        Let(Len(payload_bits(codecs[encoder], text)), LAMBDA count :
            /\ 256 * encoded[1] + encoded[2] = count
            /\ Len(encoded) = (16 + count + 7) \div 8)

\* C29: the bytes FskDemodulator::demodulate writes depend only on the
\* samples of that call: two calls with the same samples on one instance
\* without a reset() between them give the same output, and every call gives
\* what a new instance gives for its samples, no sample of an earlier call
\* being demodulated again.
C29_FskRepeatable ==
    \A i \in 1..Len(modemLog) :
        (modemLog[i].op = "demodulate" /\ modemLog[i].state.kind = "FskDemodulator") =>
            /\ \A r \in FskDemodulator_demodulate(
                          FskDemodulator_new(modemLog[i].state.config),
                          modemLog[i].input) : modemLog[i].out = r.out
            /\ \A j \in (i + 1)..Len(modemLog) :
                  (/\ modemLog[j].input = modemLog[i].input
                   /\ \A k \in i..j : modemLog[k].op # "reset")
                  => modemLog[j].out = modemLog[i].out

\* ---------------------------------------------------------------------
\* The output vector handed to modulate.
\* ---------------------------------------------------------------------

\* modulate(bits, output) on a vector holding `output`: BpskModulator and
\* OfdmModulator begin with `output.clear()`, FskModulator only pushes.
modulate_into(self, bits, output) ==
    { [ out |-> (IF self.kind = "FskModulator" THEN output ELSE << >>) \o r.out,
        state |-> r.state ] : r \in modem_call(self, bits) }

\* modulator.modulate(&bytes, &mut output), the caller passing a new vector
\* or the vector of the call before.
DoModulateInto(bytes, reuse) ==
    /\ modem.kind \in Modulators
    /\ Len(modemLog) < MaxCalls
    /\ \E r \in modulate_into(modem, bytes,
                              IF reuse /\ modemLog # << >>
                              THEN modemLog[Len(modemLog)].out ELSE << >>) :
          /\ modem' = r.state
          /\ modemLog' = Append(modemLog, [ op |-> "modulate", input |-> bytes,
                                            out |-> r.out, state |-> r.state ])
    /\ UNCHANGED << frameVars, codecVars, chainVars, rxVars, coordVars >>

InitOutput ==
    /\ FrameIdle /\ codecs = << >> /\ CodecIdle /\ ChainIdle /\ RxIdle /\ CoordIdle
    /\ modemLog = << >>
    /\ \/ \E c \in BpskConfigs : modem = modem_new("BpskModulator", c)
       \/ \E k \in { "FskModulator", "OfdmModulator" } : modem = modem_new(k, FskConfig)

NextOutput == \E bytes \in ModulateInputs, reuse \in BOOLEAN : DoModulateInto(bytes, reuse)

SpecOutput == InitOutput /\ [][NextOutput]_vars

\* C30: for BpskModulator, FskModulator and OfdmModulator, after
\* modulate(bits, output) returns Ok the output vector holds exactly the
\* samples generated for bits in this call, whatever it held before.
C30_OutputReplaced ==
    \A i \in 1..Len(modemLog) :
        modemLog[i].op = "modulate" =>
            \A r \in modem_call(modem_before(i), modemLog[i].input) :
                modemLog[i].out = r.out

====
